---- MODULE Spec2Model ----
(***************************************************************************)
(* A model of the benchmark report pipeline of github_rest_api             *)
(* (src/github_rest_api/actions/cargo/benchmark.py and its older copy      *)
(* src/github_rest_api/actions/cargo.py), of the publishing helpers        *)
(* (src/github_rest_api/actions/utils.py, .../cargo/profiling.py) and of   *)
(* two calls of the REST wrapper (src/github_rest_api/github.py).          *)
(*                                                                         *)
(* Text is modelled as sequences of one-character strings, so that         *)
(* Python's str/Path comparison, find, strip, replace and float() are      *)
(* computed character by character.  The only multi-character token is     *)
(* the report marker "Change in Value:", which the code only looks up      *)
(* with the `in` operator.  Line terminators are left out: they never lie  *)
(* between the delimiters the code searches for.                           *)
(*                                                                         *)
(* The call scenarios share the variables:                                 *)
(*   SpecIndex  : gen_index_markdown (prune snapshots, write index.md)     *)
(*   SpecMetric : _parse_metric_ci followed by _gen_report_ci_markdown     *)
(*   SpecReport : _gen_report_links_markdown of one snapshot directory     *)
(*   SpecPush   : commit_profiling followed by push_branch                 *)
(*   SpecRename : _rename_bench_reports, applied twice                     *)
(*   SpecBench  : benchmark(), from gen_index_markdown to the push         *)
(*   SpecLink   : the link target of one report directory                  *)
(*   SpecRepos  : Organization.get_repositories                            *)
(*   SpecUpdate : Repository.update_branch                                 *)
(*   SpecRun    : benchmark(), from the temporary branch to the push       *)
(*   SpecGlob   : gen_index_markdown among directories of other names      *)
(*   SpecTemp   : gen_temp_branch                                          *)
(***************************************************************************)
EXTENDS Integers, Sequences, FiniteSets, TLC

VARIABLES
    op,            \* the call being modelled: "index", "metric", "report", ...
    pc,            \* position inside that call
    err,           \* the exception that ended the call, "" when none
    disk0,         \* names of the subdirectories of bench_dir before the call
    disk,          \* names of the subdirectories of bench_dir now
    history,       \* the history argument
    dirs,          \* the list returned by _clean_bench_dirs
    doc,           \* the section headings of index.md, in document order
    lines,         \* the lines of the report file read by _parse_metric_ci
    vals,          \* the numbers (in tenths of a percent) the triple was printed from
    ci,            \* the triple returned by _parse_metric_ci
    md,            \* the span rendered by _gen_report_ci_markdown
    listing,       \* the report directories in the order iterdir() yields them
    reports,       \* report directory name -> lines of its index.html
    extract,       \* the extract_benchmark_name callable in use
    cips,          \* the (ci, path) pairs in by-name order
    links,         \* the lines of the "Sorted By Name" view
    links_sorted,  \* the lines of the "Sorted By Performance Change" view
    branch,        \* the branch argument of push_branch
    branch_alt,    \* the branch_alt argument of push_branch, "" when not given
    head,          \* the branch checked out in the working tree
    local,         \* local branch name -> commit it points at, 0 when absent
    remote,        \* remote branch name -> commit it points at, 0 when absent
    repo0,         \* local and remote as they were before the publish began
    git,           \* the porcelain calls made by push_branch, with their outcome
    result,        \* the value returned to the caller
    named,         \* the branch names carried by the pending or raised exception
    artifact,      \* the commit made by commit_profiling, 0 before it
    tree0,         \* the files below bench_dir before the call
    tree,          \* the files below bench_dir now, each a path from bench_dir
    tree1,         \* the files after the first of two _rename_bench_reports calls
    contents,      \* snapshot name -> lines of the report page of its benchmark
    stages,        \* the stages of benchmark() begun so far, with their outcome
    written,       \* whether index.md has been written
    bench_dir,     \* the components of the bench_dir path
    frag_path,     \* the components of the path of a report directory
    link,          \* the link target written for it in index.md
    total,         \* the number of repositories the organization has
    page,          \* params["page"] of get_repositories
    repos,         \* the list get_repositories has built so far
    update,        \* the update argument of update_branch
    upstream,      \* the upstream argument of update_branch
    prs,           \* the pull requests the server lists, as records
    pr,            \* the pull request create_pull_request returned, <<>> for None
    status,        \* the status code of the answer to the creation request, 0 before it
    requests,      \* the HTTP requests sent so far
    returned,      \* the value the call returned
    pr_number,     \* the pr_number argument of benchmark()
    storage,       \* the storage argument of benchmark(), "" when not given
    temp_branch,   \* the name gen_temp_branch returned, "" before it
    criterion_dir, \* what target/criterion holds: "", "baseline" or "results"
    parent,        \* the commit the commit of commit_benchmarks was made on top of
    events,        \* the steps of benchmark() taken so far, each with the branch checked out
    temp_prefix,   \* gen_temp_branch: the prefix argument
    temp_chars,    \* gen_temp_branch: the chars argument, as a list
    temp_nrand,    \* gen_temp_branch: the nrand argument
    temp_sample,   \* gen_temp_branch: the list random.sample returned
    temp_name      \* gen_temp_branch: the name returned

vars == <<op, pc, err, disk0, disk, history, dirs, doc, lines, vals, ci, md,
          listing, reports, extract, cips, links, links_sorted,
          branch, branch_alt, head, local, remote, repo0, git, result, named,
          artifact,
          tree0, tree, tree1, contents, stages, written,
          bench_dir, frag_path, link,
          total, page, repos, update, upstream, prs, pr, status, requests, returned,
          pr_number, storage, temp_branch, criterion_dir, parent, events,
          temp_prefix, temp_chars, temp_nrand, temp_sample, temp_name>>

indexVars == <<disk0, disk, history, dirs, doc>>
metricVars == <<lines, vals, ci, md>>
reportVars == <<listing, reports, extract, cips, links, links_sorted>>
pushVars == <<branch, branch_alt, head, local, remote, repo0, git, result, named,
              artifact>>

\* the variables of a scenario that is not the one being run
IdlePush ==
    /\ branch = "" /\ branch_alt = "" /\ head = ""
    /\ local = <<>> /\ remote = <<>> /\ repo0 = <<>>
    /\ git = <<>> /\ result = "" /\ named = {} /\ artifact = 0

fsVars == <<tree0, tree, tree1, contents, stages, written>>

IdleFs ==
    /\ tree0 = {} /\ tree = {} /\ tree1 = {} /\ contents = <<>> /\ stages = <<>> /\ written = FALSE

linkVars == <<bench_dir, frag_path, link>>

IdleLink ==
    /\ bench_dir = <<>> /\ frag_path = <<>> /\ link = <<>>

ghVars == <<total, page, repos, update, upstream, prs, pr, status, requests, returned>>

IdleGh ==
    /\ total = 0 /\ page = 0 /\ repos = <<>>
    /\ update = "" /\ upstream = "" /\ prs = <<>> /\ pr = <<>> /\ status = 0
    /\ requests = <<>> /\ returned = ""

runVars == <<pr_number, storage, temp_branch, criterion_dir, parent, events>>

IdleRun ==
    /\ pr_number = <<>> /\ storage = <<>> /\ temp_branch = "" /\ criterion_dir = ""
    /\ parent = 0 /\ events = <<>>

tempVars == <<temp_prefix, temp_chars, temp_nrand, temp_sample, temp_name>>

IdleTemp ==
    /\ temp_prefix = <<>> /\ temp_chars = <<>> /\ temp_nrand = 0
    /\ temp_sample = <<>> /\ temp_name = <<>>

(***************************************************************************)
(* Bounds of the model.                                                    *)
(***************************************************************************)
\* snapshot labels range over 1..MaxLabel (two-digit labels included)
MaxLabel == 10
\* history ranges over -NegHistory..MaxHistory
MaxHistory == 3
NegHistory == 1
\* a report file has at most MaxLines lines
MaxLines == 4
\* bounds of a triple range over -MaxTenths..MaxTenths tenths of a percent
MaxTenths == 12
\* a snapshot has at most MaxReports report directories
MaxReports == 3
\* the commits the repositories hold before the publish are 1..MaxCommits
MaxCommits == 2
\* the renaming scenario has the numeric snapshots 1..MaxSnaps, and dev
MaxSnaps == 1
\* bench_dir has at most MaxParts components
MaxParts == 2
\* the organization has at most MaxRepos repositories
MaxRepos == 201
\* the server lists at most MaxPRs pull requests, numbered in 1..MaxPRs
MaxPRs == 2

(***************************************************************************)
(* Characters and strings.                                                 *)
(***************************************************************************)
\* the code point of a character, as Python's str comparison uses it
Ord(c) ==
    CASE c = " " -> 32 [] c = "%" -> 37 [] c = "+" -> 43 [] c = "-" -> 45
      [] c = "." -> 46 [] c = "/" -> 47
      [] c = "0" -> 48 [] c = "1" -> 49 [] c = "2" -> 50 [] c = "3" -> 51
      [] c = "4" -> 52 [] c = "5" -> 53 [] c = "6" -> 54 [] c = "7" -> 55
      [] c = "8" -> 56 [] c = "9" -> 57
      [] c = ":" -> 58 [] c = "<" -> 60 [] c = ">" -> 62
      [] c = "Z" -> 90 [] c = "_" -> 95
      [] c = "a" -> 97 [] c = "b" -> 98 [] c = "c" -> 99 [] c = "d" -> 100
      [] c = "e" -> 101 [] c = "v" -> 118 [] c = "x" -> 120

DigitChars == <<"0", "1", "2", "3", "4", "5", "6", "7", "8", "9">>

IsDigit(c) == \E d \in 1..10 : DigitChars[d] = c

DigitVal(c) == (CHOOSE d \in 1..10 : DigitChars[d] = c) - 1

Min(a, b) == IF a < b THEN a ELSE b

Max(a, b) == IF a < b THEN b ELSE a

Range(s) == {s[i] : i \in 1..Len(s)}

\* a list whose elements are all evaluated, once
List(f) == f \o <<>>

Reverse(s) == List([i \in 1..Len(s) |-> s[Len(s) + 1 - i]])

\* s < t for two Python strings (and for two sibling Path objects)
StrLess(s, t) ==
    \E k \in 1..(Min(Len(s), Len(t)) + 1) :
        /\ \A i \in 1..(k - 1) : s[i] = t[i]
        /\ \/ k = Len(s) + 1 /\ k <= Len(t)
           \/ k <= Len(s) /\ k <= Len(t) /\ Ord(s[k]) < Ord(t[k])

\* str(n) for a positive integer n
RECURSIVE DecStr(_)
DecStr(n) ==
    IF n < 10 THEN <<DigitChars[n + 1]>>
    ELSE DecStr(n \div 10) \o <<DigitChars[(n % 10) + 1]>>

\* whether a directory name is the decimal form of a positive integer
IsLabel(name) ==
    /\ Len(name) >= 1
    /\ \A i \in 1..Len(name) : IsDigit(name[i])
    /\ name[1] # "0"

\* int(name) for a directory name made of digits
RECURSIVE ToInt(_)
ToInt(name) ==
    IF Len(name) = 0 THEN 0
    ELSE 10 * ToInt(SubSeq(name, 1, Len(name) - 1)) + DigitVal(name[Len(name)])

\* sorted(S) for a set of distinct names: ascending in str order
SortedNames(S) ==
    List([k \in 1..Cardinality(S) |->
            CHOOSE x \in S : Cardinality({y \in S : StrLess(y, x)}) = k - 1])

\* the position of s[i] after a stable ascending sort, given for every pair
\* of positions whether the first element is less than the second
StableRank(i, n, less) ==
    Cardinality({j \in 1..n : less[j][i] \/ (~less[i][j] /\ j < i)}) + 1

\* Python's slice index normalisation for a list of length n
ClampIndex(k, n) == IF k < 0 THEN Max(k + n, 0) ELSE Min(k, n)

\* s[:k]
SliceTo(s, k) == SubSeq(s, 1, ClampIndex(k, Len(s)))

\* s[k:]
SliceFrom(s, k) == SubSeq(s, ClampIndex(k, Len(s)) + 1, Len(s))

(***************************************************************************)
(* gen_index_markdown: prune the snapshot directories, write index.md.     *)
(***************************************************************************)
dev == <<"d", "e", "v">>

\* the subdirectory names a benchmark tree may hold
DirNames == {DecStr(n) : n \in 1..MaxLabel} \cup {dev}

\* variant: bench_dir.glob("*/"), which also matches dev
GlobAll(names) == names

\* bench_dir.glob("[1-9]*/")
Glob(names) ==
    {n \in names : Len(n) >= 1 /\ n[1] \in {"1", "2", "3", "4", "5", "6", "7", "8", "9"}}

\* _clean_bench_dirs(bench_dir, history) on a tree holding `names`:
\* the list returned and the names left on disk
_clean_bench_dirs(names, h) ==
    LET sorted == SortedNames(Glob(names))
        removed == SliceTo(sorted, 0 - h)
        left == names \ Range(removed)
        kept == SliceFrom(sorted, 0 - h)
    IN [dirs |-> IF dev \in left THEN Append(kept, dev) ELSE kept,
        disk |-> left]

\* _gen_markdown: one section per directory, in reversed order
_gen_markdown(ds) == Reverse(ds)

InitIndex ==
    /\ IdleTemp
    /\ IdleRun
    /\ IdleGh
    /\ IdleLink
    /\ IdleFs
    /\ IdlePush
    /\ op = "index"
    /\ pc = "clean"
    /\ err = ""
    /\ disk0 \in SUBSET DirNames
    /\ disk = disk0
    /\ history \in (0 - NegHistory)..MaxHistory
    /\ dirs = <<>>
    /\ doc = <<>>
    /\ lines = <<>> /\ vals = <<>> /\ ci = <<>> /\ md = <<>>
    /\ listing = <<>> /\ reports = <<>> /\ extract = "" /\ cips = <<>>
    /\ links = <<>> /\ links_sorted = <<>>

\* gen_index_markdown, line 208
CleanStep ==
    /\ op = "index" /\ pc = "clean"
    /\ \E r \in {_clean_bench_dirs(disk, history)} :
          /\ dirs' = r.dirs
          /\ disk' = r.disk
    /\ pc' = "render"
    /\ UNCHANGED <<op, err, disk0, history, doc, metricVars, reportVars, pushVars, fsVars, linkVars, ghVars, runVars, tempVars>>

\* gen_index_markdown, lines 210-212
WriteIndexStep ==
    /\ op = "index" /\ pc = "render"
    /\ doc' = _gen_markdown(dirs)
    /\ pc' = "done"
    /\ UNCHANGED <<op, err, disk0, disk, history, dirs, metricVars, reportVars, pushVars, fsVars, linkVars, ghVars, runVars, tempVars>>

NextIndex == CleanStep \/ WriteIndexStep

SpecIndex == InitIndex /\ [][NextIndex]_vars

(***************************************************************************)
(* Claims about _clean_bench_dirs and gen_index_markdown.                  *)
(***************************************************************************)
Cleaned == op = "index" /\ pc \in {"render", "done"}

\* the snapshot labels on disk before the call
Labels0 == {ToInt(n) : n \in disk0 \ {dev}}

\* the h numerically largest labels of a set
Largest(labels, h) == {l \in labels : Cardinality({m \in labels : m > l}) < h}

\* the names of a set of labels in ascending numeric order
AscendingNames(labels) ==
    List([k \in 1..Cardinality(labels) |->
            DecStr(CHOOSE l \in labels : Cardinality({m \in labels : m < l}) = k - 1)])

NonBaseline(ds) == SelectSeq(ds, LAMBDA d : d # dev)

\* C1: with history = N >= 1 and snapshot directories labelled by positive
\* integers, _clean_bench_dirs returns the N numerically largest labels in
\* ascending numeric order, then dev when it exists, and every other numeric
\* snapshot directory is gone from disk.
C1_KeepsNumericallyLargest ==
    (Cleaned /\ history >= 1 /\ \A n \in disk0 \ {dev} : IsLabel(n)) =>
        LET top == Largest(Labels0, history)
        IN /\ dirs = AscendingNames(top) \o (IF dev \in disk0 THEN <<dev>> ELSE <<>>)
           /\ disk \ {dev} = {DecStr(l) : l \in top}

\* C2: for every history = N >= 0 the numeric snapshot directories left on
\* disk, and the non-baseline entries of the returned list, number at most N.
C2_AtMostHistoryKept ==
    (Cleaned /\ history >= 0) =>
        /\ Cardinality(disk \ {dev}) <= history
        /\ Len(NonBaseline(dirs)) <= history

\* C3: dev is never deleted, is the last element of the returned list whenever
\* it exists (and occurs nowhere else), and does not count against the
\* retention: the numeric snapshots returned and left on disk are those of
\* the same call on the tree without dev.
C3_BaselineExempt ==
    Cleaned =>
        /\ dev \in disk0 =>
              /\ dev \in disk
              /\ Len(dirs) >= 1
              /\ dirs[Len(dirs)] = dev
              /\ \A i \in 1..(Len(dirs) - 1) : dirs[i] # dev
        /\ dev \notin disk0 => dev \notin Range(dirs)
        /\ LET r == _clean_bench_dirs(disk0 \ {dev}, history)
           IN /\ NonBaseline(dirs) = r.dirs
              /\ disk \ {dev} = r.disk

C3_Witness ==
    /\ Cleaned
    /\ dev \in disk0
    /\ history >= 1
    /\ Cardinality(disk0 \ {dev}) > history
    /\ disk # disk0
    /\ dirs[Len(dirs)] = dev

\* C8: index.md holds the section of every returned snapshot exactly once,
\* and of two numeric snapshots the one with the larger label comes first.
C8_MostRecentFirst ==
    (op = "index" /\ pc = "done") =>
        /\ Len(doc) = Len(dirs)
        /\ \A d \in Range(dirs) : Cardinality({i \in 1..Len(doc) : doc[i] = d}) = 1
        /\ \A i, j \in 1..Len(doc) :
              (IsLabel(doc[i]) /\ IsLabel(doc[j]) /\ ToInt(doc[i]) > ToInt(doc[j])) => i < j

(***************************************************************************)
(* _parse_metric_ci and _gen_report_ci_markdown.                           *)
(* A line is a sequence of characters; MARK stands for the text            *)
(* "Change in Value:".  Numbers are exact decimal fractions num/den, which *)
(* is what float() yields for the comparisons the code makes on short      *)
(* decimal strings.                                                        *)
(***************************************************************************)
MARK == "Change in Value:"

Zero == <<"0">>

\* s.strip(chars): drop the characters of `chars` from both ends
StripChars(s, chars) ==
    LET keep == {i \in 1..Len(s) : s[i] \notin chars}
    IN IF keep = {} THEN <<>>
       ELSE SubSeq(s, CHOOSE i \in keep : \A j \in keep : i <= j,
                      CHOOSE i \in keep : \A j \in keep : j <= i)

\* s.strip()
Strip(s) == StripChars(s, {" "})

\* s.replace(c, "") for a one-character c
RemoveChar(s, c) == SelectSeq(s, LAMBDA x : x # c)

\* s.find(c, from): the least index >= from holding c, 0 when there is none
\* (indices count from 1 here, Python's -1 is 0)
Find(s, c, from) ==
    LET hits == {i \in from..Len(s) : s[i] = c}
    IN IF hits = {} THEN 0 ELSE CHOOSE i \in hits : \A j \in hits : i <= j

RECURSIVE DigitsToInt(_)
DigitsToInt(s) ==
    IF Len(s) = 0 THEN 0
    ELSE 10 * DigitsToInt(SubSeq(s, 1, Len(s) - 1)) + DigitVal(s[Len(s)])

RECURSIVE Pow10(_)
Pow10(k) == IF k = 0 THEN 1 ELSE 10 * Pow10(k - 1)

\* float(s): [sign] digits [. digits], surrounding blanks ignored;
\* anything else raises ValueError (ok = FALSE)
Float(s) ==
    LET t == Strip(s)
        signed == Len(t) >= 1 /\ t[1] \in {"+", "-"}
        body == IF signed THEN Tail(t) ELSE t
        dot == Find(body, ".", 1)
        int == IF dot = 0 THEN body ELSE SubSeq(body, 1, dot - 1)
        frac == IF dot = 0 THEN <<>> ELSE SubSeq(body, dot + 1, Len(body))
        wellformed ==
            /\ \A i \in 1..Len(int) : IsDigit(int[i])
            /\ \A i \in 1..Len(frac) : IsDigit(frac[i])
            /\ Len(int) + Len(frac) >= 1
        mag == DigitsToInt(int \o frac)
    IN IF ~wellformed THEN [ok |-> FALSE, num |-> 0, den |-> 1]
       ELSE [ok |-> TRUE,
             num |-> IF signed /\ t[1] = "-" THEN 0 - mag ELSE mag,
             den |-> Pow10(Len(frac))]

Abs(n) == IF n < 0 THEN 0 - n ELSE n

\* variant: the loop index is returned when no line holds the marker
_find_start_line_last(ls) ==
    LET hits == {i \in 1..Len(ls) : MARK \in Range(ls[i])}
    IN IF hits = {} THEN Len(ls) ELSE CHOOSE i \in hits : \A j \in hits : i <= j

\* the index of the first line holding the marker, 0 for None
_find_start_line(ls) ==
    LET hits == {i \in 1..Len(ls) : MARK \in Range(ls[i])}
    IN IF hits = {} THEN 0 ELSE CHOOSE i \in hits : \A j \in hits : i <= j

\* variant: the check of `end` is left out, so that end = -1 slices off the
\* last character
_extract_value_unchecked_end(line) ==
    LET start == Find(line, ">", 1)
        end == Find(line, "<", start + 1)
    IN IF start = 0 THEN Zero
       ELSE IF end = 0 THEN Strip(SubSeq(line, start + 1, Len(line) - 1))
       ELSE Strip(SubSeq(line, start + 1, end - 1))

_extract_value_from_line(line) ==
    LET start == Find(line, ">", 1)
        end == Find(line, "<", start + 1)
    IN IF start = 0 THEN Zero
       ELSE IF end = 0 THEN Zero
       ELSE Strip(SubSeq(line, start + 1, end - 1))

\* _parse_metric_ci on a file holding the lines ls: the triple, or IndexError
_parse_metric_ci(ls) ==
    LET start == _find_start_line(ls)
    IN IF start = 0 THEN [raised |-> "", ci |-> <<Zero, Zero, Zero>>]
       ELSE IF start + 3 > Len(ls) THEN [raised |-> "IndexError", ci |-> <<>>]
       ELSE [raised |-> "",
             ci |-> <<_extract_value_from_line(ls[start + 1]),
                      _extract_value_from_line(ls[start + 2]),
                      _extract_value_from_line(ls[start + 3])>>]

\* float(value.strip("%").strip())
_reg_value(value) == Float(Strip(StripChars(value, {"%"})))

\* variant: middle < 1 in place of abs(middle) < 1
_significance_no_abs(lower, middle, upper) ==
    IF middle.num < middle.den THEN 0
    ELSE IF lower.num < 0 /\ upper.num < 0 THEN 0 - 1
    ELSE IF lower.num > 0 /\ upper.num > 0 THEN 1
    ELSE 0

\* _significance on the three parsed values
_significance(lower, middle, upper) ==
    IF Abs(middle.num) < middle.den THEN 0
    ELSE IF lower.num < 0 /\ upper.num < 0 THEN 0 - 1
    ELSE IF lower.num > 0 /\ upper.num > 0 THEN 1
    ELSE 0

\* {0: "black", -1: "green", 1: "red"}
Color(sig) == CASE sig = 0 -> "black" [] sig = 0 - 1 -> "green" [] sig = 1 -> "red"

\* _gen_report_ci_markdown: the colour and the three strings of the span,
\* or ValueError when a bound is not a number
_gen_report_ci_markdown(t) ==
    LET lower == _reg_value(t[1])
        middle == _reg_value(t[2])
        upper == _reg_value(t[3])
    IN IF ~(lower.ok /\ middle.ok /\ upper.ok)
       THEN [raised |-> "ValueError", color |-> "", lower |-> t[1], middle |-> t[2], upper |-> t[3]]
       ELSE [raised |-> "", color |-> Color(_significance(lower, middle, upper)),
             lower |-> t[1], middle |-> t[2], upper |-> t[3]]

\* a percent value as the benchmarking tool prints it, from tenths of a percent
FormatPct(v, plus) ==
    (IF v < 0 THEN <<"-">> ELSE IF plus THEN <<"+">> ELSE <<>>)
        \o DecStr(Abs(v) \div 10) \o <<".">> \o <<DigitChars[(Abs(v) % 10) + 1]>> \o <<"%">>

TagLine(text) == <<"<", "b", ">">> \o text \o <<"<", "/", "b", ">">>

MarkerLine == TagLine(<<MARK>>)

\* a report page as the benchmarking tool writes it
WellFormedReport(lo, mid, up, plus) ==
    <<MarkerLine, TagLine(FormatPct(lo, plus)), TagLine(FormatPct(mid, plus)),
      TagLine(FormatPct(up, plus))>>

\* the lines an arbitrary report file is made of
ReportLines ==
    {MarkerLine, <<"x">>, <<"b", ">", "2", "%">>}
        \cup {TagLine(FormatPct(v, TRUE)) : v \in {0 - 30, 5, 20}}

SeqsUpTo(S, n) == UNION {[1..k -> S] : k \in 0..n}

InitMetric ==
    /\ IdleTemp
    /\ IdleRun
    /\ IdleGh
    /\ IdleLink
    /\ IdleFs
    /\ IdlePush
    /\ op = "metric"
    /\ pc = "parse"
    /\ err = ""
    /\ \/ /\ lines \in SeqsUpTo(ReportLines, MaxLines)
          /\ vals = <<>>
       \/ \E lo, mid, up \in (0 - MaxTenths)..MaxTenths, plus \in BOOLEAN :
             /\ lines = WellFormedReport(lo, mid, up, plus)
             /\ vals = <<lo, mid, up>>
    /\ ci = <<>> /\ md = <<>>
    /\ disk0 = {} /\ disk = {} /\ history = 0 /\ dirs = <<>> /\ doc = <<>>
    /\ listing = <<>> /\ reports = <<>> /\ extract = "" /\ cips = <<>>
    /\ links = <<>> /\ links_sorted = <<>>

\* _gen_report_links_markdown, line 114: parse one report page
ParseStep ==
    /\ op = "metric" /\ pc = "parse"
    /\ \E r \in {_parse_metric_ci(lines)} :
          /\ ci' = r.ci
          /\ err' = r.raised
          /\ pc' = IF r.raised = "" THEN "classify" ELSE "raised"
    /\ UNCHANGED <<op, lines, vals, md, indexVars, reportVars, pushVars, fsVars, linkVars, ghVars, runVars, tempVars>>

\* _gen_report_link_markdown, line 140: render the interval of that page
ClassifyStep ==
    /\ op = "metric" /\ pc = "classify"
    /\ \E r \in {_gen_report_ci_markdown(ci)} :
          /\ md' = r
          /\ err' = r.raised
          /\ pc' = IF r.raised = "" THEN "done" ELSE "raised"
    /\ UNCHANGED <<op, lines, vals, ci, indexVars, reportVars, pushVars, fsVars, linkVars, ghVars, runVars, tempVars>>

NextMetric == ParseStep \/ ClassifyStep

SpecMetric == InitMetric /\ [][NextMetric]_vars

(***************************************************************************)
(* Claims about _parse_metric_ci and the significance classification.      *)
(***************************************************************************)
\* the rule of the specification, on numbers in tenths of a percent
ReferenceClass(lo, mid, up) ==
    IF 0 - 10 < mid /\ mid < 10 THEN "neutral"
    ELSE IF lo < 0 /\ up < 0 THEN "improvement"
    ELSE IF lo > 0 /\ up > 0 THEN "regression"
    ELSE "neutral"

ReferenceColor(class) ==
    CASE class = "neutral" -> "black"
      [] class = "improvement" -> "green"
      [] class = "regression" -> "red"

Ended == pc \in {"done", "raised"}

\* C4: for every triple of percent values the rendered colour is the one the
\* reference rule gives: black when |middle| < 1.0 whatever the bounds, else
\* green when both bounds are negative, else red when both are positive,
\* else black.
C4_SignificanceMatchesRule ==
    (op = "metric" /\ vals # <<>> /\ Ended) =>
        /\ pc = "done"
        /\ md.color = ReferenceColor(ReferenceClass(vals[1], vals[2], vals[3]))

C4_Witness ==
    /\ op = "metric" /\ pc = "done" /\ vals # <<>>
    /\ vals[1] < 0 /\ vals[3] < 0 /\ vals[2] < 0 /\ vals[2] > 0 - 10
    /\ md.color = "black"

HasMarker == \E i \in 1..Len(lines) : MARK \in Range(lines[i])

\* C9: a report file with no marker line yields ("0","0","0") without raising,
\* and that triple is rendered black.
C9_MissingMarkerIsNeutral ==
    (op = "metric" /\ ~HasMarker /\ pc # "parse") =>
        /\ err = ""
        /\ ci = <<Zero, Zero, Zero>>
        /\ pc = "done" => md.color = "black"

C9_Witness ==
    /\ op = "metric" /\ pc = "done" /\ ~HasMarker /\ Len(lines) >= 2
    /\ \E i \in 1..Len(lines) : ">" \in Range(lines[i])
    /\ md.color = "black"

\* C10: whatever the lines of the report file, _parse_metric_ci returns a
\* triple of strings and never raises.
C10_ParseNeverRaises ==
    (op = "metric" /\ pc # "parse") =>
        /\ err # "IndexError"
        /\ Len(ci) = 3

\* a line without a '>' that is followed, somewhere, by a '<'
LacksDelimiter(line) ==
    ~\E i, j \in 1..Len(line) : i < j /\ line[i] = ">" /\ line[j] = "<"

\* the percent strings the bound lines of the model are printed from
PercentStrings == {FormatPct(v, TRUE) : v \in {0 - 30, 5, 20}}

WellFormedBound(line) == \E t \in PercentStrings : line = TagLine(t)

\* the position of the first marker line (HasMarker is assumed)
MarkerPos == CHOOSE i \in 1..Len(lines) :
    /\ MARK \in Range(lines[i])
    /\ \A j \in 1..(i - 1) : MARK \notin Range(lines[j])

FollowedByThree == HasMarker /\ MarkerPos + 3 <= Len(lines)

BoundLine(k) == lines[MarkerPos + k]

\* C11: when the marker line is followed by three lines, a bound line lacking
\* '>' or lacking a '<' after the first '>' yields the bound "0" without
\* raising while a well-formed bound line yields its own percent string; and
\* when at least one bound is defaulted this way and the others are
\* well-formed, the fragment is rendered black (neutral) without raising.
C11_MissingDelimiterIsNeutral ==
    (op = "metric" /\ FollowedByThree /\ pc # "parse") =>
        /\ err # "IndexError"
        /\ \A k \in 1..3 :
              /\ LacksDelimiter(BoundLine(k)) => ci[k] = Zero
              /\ WellFormedBound(BoundLine(k)) => TagLine(ci[k]) = BoundLine(k)
        /\ ( /\ \E k \in 1..3 : LacksDelimiter(BoundLine(k))
             /\ \A k \in 1..3 : LacksDelimiter(BoundLine(k)) \/ WellFormedBound(BoundLine(k))
             /\ Ended )
           => (pc = "done" /\ err = "" /\ md.color = "black")

C11_Witness ==
    /\ op = "metric" /\ pc = "done" /\ FollowedByThree
    /\ LacksDelimiter(BoundLine(1))
    /\ ">" \in Range(BoundLine(1))
    /\ BoundLine(2) = TagLine(FormatPct(20, TRUE))
    /\ BoundLine(3) = TagLine(FormatPct(20, TRUE))
    /\ ci = <<Zero, FormatPct(20, TRUE), FormatPct(20, TRUE)>>
    /\ md.color = "black"

(***************************************************************************)
(* _gen_report_links_markdown: the two views of one snapshot directory.    *)
(***************************************************************************)
\* s.replace(old, new): non-overlapping occurrences, left to right
RECURSIVE Replace(_, _, _)
Replace(s, old, new) ==
    IF Len(s) < Len(old) THEN s
    ELSE IF SubSeq(s, 1, Len(old)) = old
         THEN new \o Replace(SubSeq(s, Len(old) + 1, Len(s)), old, new)
         ELSE <<s[1]>> \o Replace(Tail(s), old, new)

\* PurePath.stem: the name without its last suffix
Stem(name) ==
    LET dots == {i \in 1..Len(name) : name[i] = "."}
        last == CHOOSE i \in dots : \A j \in dots : j <= i
    IN IF dots # {} /\ 1 < last /\ last < Len(name)
       THEN SubSeq(name, 1, last - 1)
       ELSE name

\* the link text: "stem" is the default callable of benchmark.py, "renamed"
\* is the text cargo.py builds
extract_benchmark_name(name, callable) ==
    IF callable = "stem" THEN Stem(name)
    ELSE Replace(Replace(Stem(name), <<" ", "_", "_", " ">>, <<" ", "<", "<", " ">>),
                 <<"_", "_">>, <<":", ":">>)

\* variant: the listing is used as iterdir() yields it
SortPathsNoop(ps) == ps

\* paths.sort()
SortPaths(ps) ==
    LET n == Len(ps)
        less == [j \in 1..n |-> [i \in 1..n |-> StrLess(ps[j], ps[i])]]
    IN List([k \in 1..n |-> ps[CHOOSE i \in 1..n : StableRank(i, n, less) = k]])

KeyLess(a, b) == a.num * b.den < b.num * a.den

\* variant: the key without the negation
_avg_perf_change_pos(elem) ==
    LET f == Float(Strip(RemoveChar(elem.ci[2], "%")))
    IN [ok |-> f.ok, num |-> f.num, den |-> f.den]

\* -float(perf_change.replace("%", "").strip())
_avg_perf_change(elem) ==
    LET f == Float(Strip(RemoveChar(elem.ci[2], "%")))
    IN [ok |-> f.ok, num |-> 0 - f.num, den |-> f.den]

\* sorted(s, key=...) given the key of every element: stable, ascending
SortedByKey(s, keys) ==
    LET n == Len(s)
        less == [j \in 1..n |-> [i \in 1..n |-> KeyLess(keys[j], keys[i])]]
    IN List([k \in 1..n |-> s[CHOOSE i \in 1..n : StableRank(i, n, less) = k]])

\* variant: sorted(cips, key=float(middle))[::-1], which reverses ties
_sort_cips_reversed(cs) ==
    Reverse(SortedByKey(cs, List([k \in 1..Len(cs) |-> _avg_perf_change_pos(cs[k])])))

\* sorted(cips, key=_avg_perf_change)
_sort_cips(cs) ==
    SortedByKey(cs, List([k \in 1..Len(cs) |-> _avg_perf_change(cs[k])]))

\* one line of a view: the rendered interval, the link text, the linked directory
_gen_report_link_markdown(cip, callable) ==
    [span |-> _gen_report_ci_markdown(cip.ci),
     text |-> extract_benchmark_name(cip.path, callable),
     path |-> cip.path]

\* the entry of criterion/reports that is a plain file
IndexFile == <<"x">>

\* the report directories a snapshot may hold
ReportDirs ==
    {<<"a", "Z", "b">>, <<"a", "_", "_", "b">>, <<"a", ".", "b">>, <<"a", "-", "c">>}

\* the report pages: their lines and the middle value (tenths of a percent)
\* they were printed from; a page without marker counts as 0
ReportFiles ==
    {[lines |-> WellFormedReport(0 - 30, 0 - 20, 0 - 10, TRUE), mid |-> 0 - 20],
     [lines |-> WellFormedReport(10, 15, 20, TRUE), mid |-> 15],
     [lines |-> WellFormedReport(0 - 5, 0, 5, TRUE), mid |-> 0],
     [lines |-> <<<<"x">>>>, mid |-> 0]}

\* _gen_report_links_markdown on a directory listed as `entries`
_gen_report_links_markdown(entries, pages, callable) ==
    LET paths == SortPaths(SelectSeq(entries, LAMBDA e : e # IndexFile))
        parsed == List([k \in 1..Len(paths) |-> _parse_metric_ci(pages[paths[k]].lines)])
        cs == List([k \in 1..Len(paths) |-> [ci |-> parsed[k].ci, path |-> paths[k]]])
        byname == List([k \in 1..Len(cs) |-> _gen_report_link_markdown(cs[k], callable)])
        sorted == _sort_cips(cs)
        bychange == List([k \in 1..Len(cs) |-> _gen_report_link_markdown(sorted[k], callable)])
    IN IF \E k \in 1..Len(paths) : parsed[k].raised # ""
       THEN [raised |-> "IndexError", cips |-> <<>>, links |-> <<>>, links_sorted |-> <<>>]
       ELSE IF \E k \in 1..Len(cs) : byname[k].span.raised # "" \/ ~_avg_perf_change(cs[k]).ok
       THEN [raised |-> "ValueError", cips |-> cs, links |-> <<>>, links_sorted |-> <<>>]
       ELSE [raised |-> "", cips |-> cs, links |-> byname, links_sorted |-> bychange]

Injective(s) == \A i, j \in 1..Len(s) : s[i] = s[j] => i = j

InitReport ==
    /\ IdleTemp
    /\ IdleRun
    /\ IdleGh
    /\ IdleLink
    /\ IdleFs
    /\ IdlePush
    /\ op = "report"
    /\ pc = "links"
    /\ err = ""
    /\ listing \in {s \in SeqsUpTo(ReportDirs \cup {IndexFile}, MaxReports) : Injective(s)}
    /\ reports \in [Range(listing) \ {IndexFile} -> ReportFiles]
    /\ extract \in {"stem", "renamed"}
    /\ cips = <<>> /\ links = <<>> /\ links_sorted = <<>>
    /\ disk0 = {} /\ disk = {} /\ history = 0 /\ dirs = <<>> /\ doc = <<>>
    /\ lines = <<>> /\ vals = <<>> /\ ci = <<>> /\ md = <<>>

\* _gen_markdown, line 190: render the section of one snapshot directory
RenderReportStep ==
    /\ op = "report" /\ pc = "links"
    /\ \E r \in {_gen_report_links_markdown(listing, reports, extract)} :
          /\ cips' = r.cips
          /\ links' = r.links
          /\ links_sorted' = r.links_sorted
          /\ err' = r.raised
          /\ pc' = IF r.raised = "" THEN "done" ELSE "raised"
    /\ UNCHANGED <<op, listing, reports, extract, indexVars, metricVars, pushVars, fsVars, linkVars, ghVars, runVars, tempVars>>

NextReport == RenderReportStep

SpecReport == InitReport /\ [][NextReport]_vars

(***************************************************************************)
(* Claims about the two views.                                             *)
(***************************************************************************)
Rendered == op = "report" /\ pc = "done"

\* the middle value (tenths of a percent) of the fragment behind a line
Mid(line) == reports[line.path].mid

\* the position a fragment had in the list passed to _sort_cips
InputPos(line) == CHOOSE k \in 1..Len(cips) : cips[k].path = line.path

SamePaths(a, b) ==
    /\ Len(a) = Len(b)
    /\ {a[i].path : i \in 1..Len(a)} = {b[i].path : i \in 1..Len(b)}

\* C5 as claimed: in the by-change view a fragment that appears before
\* another has a middle value that is less than or equal to the other's.
C5_AscendingByMiddle ==
    Rendered =>
        \A i, j \in 1..Len(links_sorted) :
            i < j => Mid(links_sorted[i]) <= Mid(links_sorted[j])

\* C5 as amended: the by-change view holds the same fragments as the by-name
\* view, in descending order of the middle value (largest regression first).
C5_DescendingByMiddle ==
    Rendered =>
        /\ SamePaths(links_sorted, links)
        /\ \A i, j \in 1..Len(links_sorted) :
              i < j => Mid(links_sorted[i]) >= Mid(links_sorted[j])

C5_Witness ==
    /\ Rendered
    /\ Len(links_sorted) >= 3
    /\ links_sorted # links
    /\ Mid(links_sorted[1]) > Mid(links_sorted[2])
    /\ Mid(links_sorted[2]) > Mid(links_sorted[3])

\* C6: fragments with numerically equal middle values keep, in the by-change
\* view, the relative order they had in the list passed to _sort_cips.
C6_StableOnTies ==
    Rendered =>
        \A i, j \in 1..Len(links_sorted) :
            (i < j /\ Mid(links_sorted[i]) = Mid(links_sorted[j]))
                => InputPos(links_sorted[i]) < InputPos(links_sorted[j])

C6_Witness ==
    /\ Rendered
    /\ Len(links_sorted) >= 3
    /\ links_sorted # links
    /\ \E i, j \in 1..Len(links_sorted) :
          /\ i < j
          /\ Mid(links_sorted[i]) = Mid(links_sorted[j])
          /\ links_sorted[i].span.middle # links_sorted[j].span.middle

\* C7 as claimed: the by-name view is in ascending order of the link text.
C7_AscendingByLinkText ==
    Rendered =>
        \A i, j \in 1..Len(links) :
            i < j => ~StrLess(links[j].text, links[i].text)

\* C7 as amended: the by-name view lists every report directory once, in
\* ascending order of the directory name (the path, before it is turned into
\* the link text), whatever the order the filesystem listed them in.
C7_AscendingByPath ==
    Rendered =>
        /\ {links[i].path : i \in 1..Len(links)} = Range(listing) \ {IndexFile}
        /\ \A i, j \in 1..Len(links) :
              i < j => StrLess(links[i].path, links[j].path)

C7_Witness ==
    /\ Rendered
    /\ Len(links) >= 3
    /\ \E i \in 1..Len(links) : links[i].text # links[i].path
    /\ \E i, j \in 1..Len(listing) :
          i < j /\ listing[i] # IndexFile /\ listing[j] # IndexFile
                /\ StrLess(listing[j], listing[i])

(***************************************************************************)
(* push_branch, as _save_flamegraph calls it after commit_profiling.       *)
(* The working tree is on `branch` (switch_branch came first).  Commits    *)
(* are numbers; the outcome of every porcelain call is the environment's   *)
(* choice, and so is whether the library's exception mentions the ref it   *)
(* was given.                                                              *)
(***************************************************************************)
\* a function without return statement returns None
None == "None"

PRIMARY == "gh-pages"

\* "gh-pages_prof_" + yyyymmdd
FALLBACK == "gh-pages_prof_yyyymmdd"

BranchNames == {PRIMARY, FALLBACK}

\* the commit created by porcelain.commit: one the repositories do not hold yet
ArtifactCommit == MaxCommits + 1

\* the branches that exist in a repository
Existing(refs) == {b \in BranchNames : refs[b] # 0}

\* variant: the fallback push is tried again when it fails
push_branch_retry(at, ok, alt) ==
    CASE at = "push" /\ ok -> "done"
      [] at = "push" /\ ~ok /\ alt # "" -> "checkout"
      [] at = "push" /\ ~ok /\ alt = "" -> "raised"
      [] at = "checkout" /\ ok -> "create"
      [] at = "create" /\ ok -> "push_alt"
      [] at = "push_alt" /\ ok -> "done"
      [] at = "push_alt" /\ ~ok -> "push_alt"
      [] OTHER -> "raised"

\* the control flow of push_branch: the position reached from `at` when the
\* porcelain call made there succeeded (ok) or raised
push_branch(at, ok, alt) ==
    CASE at = "push" /\ ok -> "done"
      [] at = "push" /\ ~ok /\ alt # "" -> "checkout"
      [] at = "push" /\ ~ok /\ alt = "" -> "raised"
      [] at = "checkout" /\ ok -> "create"
      [] at = "create" /\ ok -> "push_alt"
      [] at = "push_alt" /\ ok -> "done"
      [] OTHER -> "raised"

\* variant: the new branch is created from the parent of the checked-out commit
checkout_new_branch_parent(refs, hd, name) == [refs EXCEPT ![name] = refs[hd] - 1]

\* porcelain.checkout(new_branch=name): the new branch starts at the commit
\* that is checked out
checkout_new_branch(refs, hd, name) == [refs EXCEPT ![name] = refs[hd]]

\* porcelain.push(refspecs=name) accepted by the remote
push_accepted(refs, rem, name) == [rem EXCEPT ![name] = refs[name]]

InitPush ==
    /\ IdleTemp
    /\ IdleRun
    /\ IdleGh
    /\ IdleLink
    /\ IdleFs
    /\ op = "push"
    /\ pc = "commit"
    /\ err = ""
    /\ branch = PRIMARY
    /\ branch_alt \in {"", FALLBACK}
    /\ head = PRIMARY
    /\ local \in {f \in [BranchNames -> 0..MaxCommits] : f[PRIMARY] # 0}
    /\ remote \in [BranchNames -> 0..MaxCommits]
    /\ repo0 = [local |-> local, remote |-> remote]
    /\ git = <<>> /\ result = "" /\ named = {} /\ artifact = 0
    /\ disk0 = {} /\ disk = {} /\ history = 0 /\ dirs = <<>> /\ doc = <<>>
    /\ lines = <<>> /\ vals = <<>> /\ ci = <<>> /\ md = <<>>
    /\ listing = <<>> /\ reports = <<>> /\ extract = "" /\ cips = <<>>
    /\ links = <<>> /\ links_sorted = <<>>

\* _save_flamegraph, line 93: commit_profiling
CommitStep ==
    /\ op = "push" /\ pc = "commit"
    /\ \E ok \in BOOLEAN :
          IF ok
          THEN /\ local' = [local EXCEPT ![head] = ArtifactCommit]
               /\ artifact' = ArtifactCommit
               /\ pc' = "push"
               /\ UNCHANGED err
          ELSE /\ err' = "CommitError"
               /\ pc' = "raised"
               /\ UNCHANGED <<local, artifact>>
    /\ UNCHANGED <<op, branch, branch_alt, head, remote, repo0, git, result, named,
                   indexVars, metricVars, reportVars, fsVars, linkVars, ghVars, runVars, tempVars>>

\* push_branch, line 52: porcelain.push(refspecs=branch)
PushPrimaryStep ==
    /\ op = "push" /\ pc = "push"
    /\ \E ok \in BOOLEAN, names \in SUBSET {branch} :
          /\ git' = Append(git, [cmd |-> "push", ref |-> branch, ok |-> ok])
          /\ remote' = IF ok THEN push_accepted(local, remote, branch) ELSE remote
          /\ named' = IF ok THEN {} ELSE names
          /\ \E to \in {push_branch("push", ok, branch_alt)} :
                /\ pc' = to
                /\ err' = IF to = "raised" THEN "PushError" ELSE ""
                /\ result' = IF to = "done" THEN None ELSE result
    /\ UNCHANGED <<op, branch, branch_alt, head, local, repo0, artifact,
                   indexVars, metricVars, reportVars, fsVars, linkVars, ghVars, runVars, tempVars>>

\* push_branch, line 55: porcelain.checkout(target=branch)
CheckoutPrimaryStep ==
    /\ op = "push" /\ pc = "checkout"
    /\ \E ok \in BOOLEAN, names \in SUBSET {branch} :
          /\ git' = Append(git, [cmd |-> "checkout", ref |-> branch, ok |-> ok])
          /\ head' = IF ok THEN branch ELSE head
          /\ named' = IF ok THEN named ELSE named \cup names
          /\ \E to \in {push_branch("checkout", ok, branch_alt)} :
                /\ pc' = to
                /\ err' = IF to = "raised" THEN "CheckoutError" ELSE ""
    /\ UNCHANGED <<op, branch, branch_alt, local, remote, repo0, result, artifact,
                   indexVars, metricVars, reportVars, fsVars, linkVars, ghVars, runVars, tempVars>>

\* push_branch, line 56: porcelain.checkout(new_branch=branch_alt)
CreateFallbackStep ==
    /\ op = "push" /\ pc = "create"
    /\ \E ok \in {o \in BOOLEAN : o => local[branch_alt] = 0},
          names \in SUBSET {branch_alt} :
          /\ git' = Append(git, [cmd |-> "create", ref |-> branch_alt, ok |-> ok])
          /\ local' = IF ok THEN checkout_new_branch(local, head, branch_alt) ELSE local
          /\ head' = IF ok THEN branch_alt ELSE head
          /\ named' = IF ok THEN named ELSE named \cup names
          /\ \E to \in {push_branch("create", ok, branch_alt)} :
                /\ pc' = to
                /\ err' = IF to = "raised" THEN "CheckoutError" ELSE ""
    /\ UNCHANGED <<op, branch, branch_alt, remote, repo0, result, artifact,
                   indexVars, metricVars, reportVars, fsVars, linkVars, ghVars, runVars, tempVars>>

\* push_branch, line 57: porcelain.push(refspecs=branch_alt)
PushFallbackStep ==
    /\ op = "push" /\ pc = "push_alt"
    /\ \E ok \in BOOLEAN, names \in SUBSET {branch_alt} :
          /\ git' = Append(git, [cmd |-> "push", ref |-> branch_alt, ok |-> ok])
          /\ remote' = IF ok THEN push_accepted(local, remote, branch_alt) ELSE remote
          /\ named' = IF ok THEN {} ELSE named \cup names
          /\ \E to \in {push_branch("push_alt", ok, branch_alt)} :
                /\ pc' = to
                /\ err' = IF to = "raised" THEN "PushError" ELSE ""
                /\ result' = IF to = "done" THEN None ELSE result
    /\ UNCHANGED <<op, branch, branch_alt, head, local, repo0, artifact,
                   indexVars, metricVars, reportVars, fsVars, linkVars, ghVars, runVars, tempVars>>

NextPush ==
    \/ CommitStep
    \/ PushPrimaryStep
    \/ CheckoutPrimaryStep
    \/ CreateFallbackStep
    \/ PushFallbackStep

SpecPush == InitPush /\ [][NextPush]_vars

(***************************************************************************)
(* Claims about push_branch.                                               *)
(***************************************************************************)
\* the positions in the trace of the calls of one kind on one ref
Calls(cmd, ref) == {i \in 1..Len(git) : git[i].cmd = cmd /\ git[i].ref = ref}

PushEnded == op = "push" /\ pc \in {"done", "raised"} /\ Len(git) >= 1

\* C12: push_branch returns the name of the branch that was pushed: branch
\* when the primary push succeeded, branch_alt when the primary push was
\* rejected and the fallback push succeeded.
C12_ReturnsPushedBranch ==
    (op = "push" /\ pc = "done") =>
        result = (IF git[1].ok THEN branch ELSE branch_alt)

\* C13: the first call is the push of the primary branch and it is made once;
\* the fallback branch is created and pushed only after that push failed, at
\* most once each, creation before push; no push is repeated; a successful
\* primary push ends the call with no other call and no new branch; a failed
\* fallback push ends the call with an exception.
C13_SingleFallbackNoRetry ==
    (op = "push" /\ Len(git) >= 1) =>
        /\ git[1] = [cmd |-> "push", ref |-> branch, ok |-> git[1].ok]
        /\ Calls("push", branch) = {1}
        /\ Cardinality(Calls("create", branch_alt)) <= 1
        /\ Cardinality(Calls("push", branch_alt)) <= 1
        /\ \A i \in 1..Len(git) :
              git[i].ref # branch => (git[i].ref = branch_alt /\ branch_alt # "")
        /\ \A i \in Calls("create", branch_alt) \cup Calls("push", branch_alt) :
              i > 1 /\ ~git[1].ok
        /\ \A i \in Calls("push", branch_alt) :
              \E j \in Calls("create", branch_alt) : j < i /\ git[j].ok
        /\ git[1].ok =>
              /\ pc = "done" /\ Len(git) = 1
              /\ Existing(local) = Existing(repo0.local)
        /\ \A i \in Calls("push", branch_alt) :
              ~git[i].ok => (i = Len(git) /\ pc = "raised" /\ err # "")
        /\ pc = "done" => git[Len(git)].ok

C13_Witness ==
    /\ op = "push" /\ pc = "raised"
    /\ Len(git) = 4
    /\ ~git[1].ok
    /\ git[3] = [cmd |-> "create", ref |-> FALLBACK, ok |-> TRUE]
    /\ git[4] = [cmd |-> "push", ref |-> FALLBACK, ok |-> FALSE]
    /\ remote = repo0.remote

\* C14: when the primary push and the fallback push both fail, push_branch
\* ends with an exception that carries the primary and the fallback name.
C14_FatalErrorNamesBoth ==
    (PushEnded /\ ~git[1].ok /\ Calls("push", branch_alt) # {}
               /\ ~git[Len(git)].ok) =>
        /\ pc = "raised"
        /\ {branch, branch_alt} \subseteq named

\* C15: when the primary push is rejected and the fallback push succeeds,
\* the fallback branch points, locally and on the remote, at the commit made
\* by the commit step, and the remote primary branch is where it was before.
C15_FallbackFromArtifactCommit ==
    (op = "push" /\ pc = "done" /\ ~git[1].ok) =>
        /\ artifact = ArtifactCommit
        /\ local[branch_alt] = artifact
        /\ remote[branch_alt] = artifact
        /\ remote[branch] = repo0.remote[branch]

C15_Witness ==
    /\ op = "push" /\ pc = "done"
    /\ ~git[1].ok
    /\ repo0.remote[PRIMARY] # 0
    /\ repo0.remote[PRIMARY] # repo0.local[PRIMARY]
    /\ repo0.remote[FALLBACK] = 0
    /\ remote[FALLBACK] = artifact
    /\ remote[PRIMARY] = repo0.remote[PRIMARY]
    /\ head = FALLBACK

(***************************************************************************)
(* _rename_bench_reports.  A file is the tuple of the components of its    *)
(* path below bench_dir: the snapshot directory first, the file name last. *)
(* Path.rename replaces an existing target, as it does on POSIX.           *)
(***************************************************************************)
HISTORY == "history.html"

INDEX == "index.html"

\* the directory of one benchmark inside a snapshot
FRAGMENT == "a"

FileName(path) == path[Len(path)]

\* path.with_name(name)
WithName(path, name) == [path EXCEPT ![Len(path)] = name]

\* variant: dir_.glob("history.html"), which does not descend
_rename_bench_reports_top(files, ds) ==
    {IF p[1] \in Range(ds) /\ Len(p) = 2 /\ FileName(p) = HISTORY
     THEN WithName(p, INDEX) ELSE p : p \in files}

\* _rename_bench_reports(dirs) on the files `files`: the files afterwards
_rename_bench_reports(files, ds) ==
    {IF p[1] \in Range(ds) /\ FileName(p) = HISTORY
     THEN WithName(p, INDEX) ELSE p : p \in files}

\* the snapshots and files of the renaming scenario
RenameSnaps == {DecStr(n) : n \in 1..MaxSnaps} \cup {dev}

RenamePaths ==
    {<<s, f>> : s \in RenameSnaps, f \in {HISTORY, INDEX}}
        \cup {<<s, FRAGMENT, f>> : s \in RenameSnaps, f \in {HISTORY, INDEX}}

InitRename ==
    /\ IdleTemp
    /\ IdleRun
    /\ IdleGh
    /\ IdleLink
    /\ IdlePush
    /\ op = "rename"
    /\ pc = "once"
    /\ err = ""
    /\ tree0 \in SUBSET RenamePaths
    /\ tree = tree0
    /\ tree1 = {}
    /\ \E sel \in SUBSET RenameSnaps :
          dirs = SortedNames(sel \ {dev}) \o (IF dev \in sel THEN <<dev>> ELSE <<>>)
    /\ contents = <<>> /\ stages = <<>> /\ written = FALSE
    /\ disk0 = {} /\ disk = {} /\ history = 0 /\ doc = <<>>
    /\ lines = <<>> /\ vals = <<>> /\ ci = <<>> /\ md = <<>>
    /\ listing = <<>> /\ reports = <<>> /\ extract = "" /\ cips = <<>>
    /\ links = <<>> /\ links_sorted = <<>>

\* the first _rename_bench_reports(dirs)
RenameOnceStep ==
    /\ op = "rename" /\ pc = "once"
    /\ \E r \in {_rename_bench_reports(tree, dirs)} :
          /\ tree' = r
          /\ tree1' = r
    /\ pc' = "twice"
    /\ UNCHANGED <<op, err, tree0, contents, stages, written,
                   indexVars, metricVars, reportVars, pushVars, linkVars, ghVars, runVars, tempVars>>

\* _rename_bench_reports(dirs) again, on what the first call left
RenameTwiceStep ==
    /\ op = "rename" /\ pc = "twice"
    /\ tree' = _rename_bench_reports(tree, dirs)
    /\ pc' = "done"
    /\ UNCHANGED <<op, err, tree0, tree1, contents, stages, written,
                   indexVars, metricVars, reportVars, pushVars, linkVars, ghVars, runVars, tempVars>>

NextRename == RenameOnceStep \/ RenameTwiceStep

SpecRename == InitRename /\ [][NextRename]_vars

(***************************************************************************)
(* Claims about _rename_bench_reports.                                     *)
(***************************************************************************)
\* the files with a given name below the selected snapshots
SelectedNamed(files, name) ==
    {p \in files : p[1] \in Range(dirs) /\ FileName(p) = name}

\* C17: _rename_bench_reports applied twice leaves the files that one
\* application leaves, and after one application no file named history.html
\* is left below a selected snapshot (each is where index.html now is).
C17_RenameIdempotent ==
    /\ (op = "rename" /\ pc \in {"twice", "done"}) =>
          /\ SelectedNamed(tree1, HISTORY) = {}
          /\ \A p \in SelectedNamed(tree0, HISTORY) : WithName(p, INDEX) \in tree1
    /\ (op = "rename" /\ pc = "done") => tree = tree1

C17_Witness ==
    /\ op = "rename" /\ pc = "done"
    /\ Len(dirs) >= 1
    /\ \E p \in SelectedNamed(tree0, HISTORY) : Len(p) = 3 /\ WithName(p, INDEX) \notin tree0
    /\ \E p \in tree : p[1] \notin Range(dirs) /\ FileName(p) = HISTORY
    /\ tree # tree0
    /\ tree = tree1

(***************************************************************************)
(* benchmark(), from gen_index_markdown on: prune, rename, render and      *)
(* write index.md, commit, create the timestamped branch, push it.  Every  *)
(* snapshot holds one benchmark directory; its report page may be named    *)
(* history.html or index.html or be missing.  Filesystem and git calls     *)
(* fail when the environment makes them fail; parsing and rendering fail   *)
(* when the page makes them fail.                                          *)
(***************************************************************************)
\* f"gh-pages_{pr_number}_{timestamp}"
TIMESTAMPED == "gh-pages_pr_yyyymmdd_HHMMSS"

BenchSnaps == {DecStr(2), DecStr(10), dev}

GoodPage == WellFormedReport(10, 15, 20, TRUE)

\* a page whose first bound line is a second marker line: the bound is not a number
NonNumericPage ==
    <<MarkerLine, MarkerLine, TagLine(FormatPct(15, TRUE)), TagLine(FormatPct(20, TRUE))>>

\* a page that ends with the marker line
TruncatedPage == <<MarkerLine>>

BenchPages == {GoodPage, NonNumericPage, TruncatedPage}

\* the order in which benchmark() runs its stages
StageOrder == <<"prune", "rename", "render", "commit", "branch", "push">>

\* variant: an exception while rendering is swallowed
benchmark_keep_going(at, ok) ==
    CASE at = "render" -> "commit"
      [] ~ok -> "raised"
      [] at = "prune" -> "rename"
      [] at = "rename" -> "render"
      [] at = "commit" -> "branch"
      [] at = "branch" -> "push"
      [] at = "push" -> "done"

\* the control flow of gen_index_markdown, benchmark and _git_push_gh_pages:
\* the position reached from stage `at` when it returned (ok) or raised
benchmark(at, ok) ==
    CASE ~ok -> "raised"
      [] at = "prune" -> "rename"
      [] at = "rename" -> "render"
      [] at = "render" -> "commit"
      [] at = "commit" -> "branch"
      [] at = "branch" -> "push"
      [] at = "push" -> "done"

\* create_branch(branch): the new branch starts at the checked-out commit
create_branch(refs, hd, name) == [refs EXCEPT ![name] = refs[hd]]

\* the exception raised while rendering the section of snapshot d, "" when none
PageError(d, files, cont) ==
    IF <<d, FRAGMENT, INDEX>> \notin files THEN "FileNotFoundError"
    ELSE LET r == _parse_metric_ci(cont[d])
         IN IF r.raised # "" THEN r.raised
            ELSE _gen_report_ci_markdown(r.ci).raised

\* the exception that ends _gen_markdown(dirs): that of the first failing
\* section, the sections being rendered in reversed order
RenderError(ds, files, cont) ==
    LET rev == Reverse(ds)
        bad == {i \in 1..Len(rev) : PageError(rev[i], files, cont) # ""}
    IN IF bad = {} THEN ""
       ELSE PageError(rev[CHOOSE i \in bad : \A j \in bad : i <= j], files, cont)

InitBench ==
    /\ IdleTemp
    /\ IdleRun
    /\ IdleGh
    /\ IdleLink
    /\ op = "bench"
    /\ pc = "prune"
    /\ err = ""
    /\ disk0 \in SUBSET BenchSnaps
    /\ disk = disk0
    /\ history \in 1..MaxHistory
    /\ dirs = <<>> /\ doc = <<>>
    /\ \E present \in [disk0 -> SUBSET {HISTORY, INDEX}] :
          tree0 = {p \in {<<d, FRAGMENT, f>> : d \in disk0, f \in {HISTORY, INDEX}} :
                      FileName(p) \in present[p[1]]}
    /\ tree = tree0
    /\ tree1 = {}
    /\ contents \in [disk0 -> BenchPages]
    /\ stages = <<>>
    /\ written = FALSE
    /\ branch = TIMESTAMPED
    /\ branch_alt = ""
    /\ head = PRIMARY
    /\ local = [b \in {PRIMARY, TIMESTAMPED} |-> IF b = PRIMARY THEN 1 ELSE 0]
    /\ remote = [b \in {PRIMARY, TIMESTAMPED} |-> IF b = PRIMARY THEN 1 ELSE 0]
    /\ repo0 = [local |-> local, remote |-> remote]
    /\ git = <<>> /\ result = "" /\ named = {} /\ artifact = 0
    /\ lines = <<>> /\ vals = <<>> /\ ci = <<>> /\ md = <<>>
    /\ listing = <<>> /\ reports = <<>> /\ extract = "" /\ cips = <<>>
    /\ links = <<>> /\ links_sorted = <<>>

\* gen_index_markdown, line 208: _clean_bench_dirs; rmtree may raise
PruneStage ==
    /\ op = "bench" /\ pc = "prune"
    /\ \E r \in {_clean_bench_dirs(disk, history)} :
       \E ok \in {o \in BOOLEAN : ~o => r.disk # disk} :
          /\ stages' = Append(stages, [stage |-> "prune", ok |-> ok])
          /\ dirs' = IF ok THEN r.dirs ELSE dirs
          /\ disk' = IF ok THEN r.disk ELSE disk
          /\ tree' = IF ok THEN {p \in tree : p[1] \in r.disk} ELSE tree
          /\ err' = IF ok THEN "" ELSE "OSError"
          /\ pc' = benchmark("prune", ok)
    /\ UNCHANGED <<op, disk0, history, doc, tree0, tree1, contents, written,
                   metricVars, reportVars, pushVars, linkVars, ghVars, runVars, tempVars>>

\* gen_index_markdown, line 209: _rename_bench_reports; rename may raise
RenameStage ==
    /\ op = "bench" /\ pc = "rename"
    /\ \E r \in {_rename_bench_reports(tree, dirs)} :
       \E ok \in {o \in BOOLEAN : ~o => r # tree} :
          /\ stages' = Append(stages, [stage |-> "rename", ok |-> ok])
          /\ tree' = IF ok THEN r ELSE tree
          /\ err' = IF ok THEN "" ELSE "OSError"
          /\ pc' = benchmark("rename", ok)
    /\ UNCHANGED <<op, tree0, tree1, contents, written,
                   indexVars, metricVars, reportVars, pushVars, linkVars, ghVars, runVars, tempVars>>

\* gen_index_markdown, lines 210-212: _gen_markdown, then write_text
RenderStage ==
    /\ op = "bench" /\ pc = "render"
    /\ \E e \in {RenderError(dirs, tree, contents)} :
       \E ok \in {o \in BOOLEAN : o => e = ""} :
          /\ stages' = Append(stages, [stage |-> "render", ok |-> ok])
          /\ doc' = IF ok THEN _gen_markdown(dirs) ELSE doc
          /\ written' = ok
          /\ err' = IF ok THEN "" ELSE IF e # "" THEN e ELSE "OSError"
          /\ pc' = benchmark("render", ok)
    /\ UNCHANGED <<op, disk0, disk, history, dirs, tree0, tree, tree1, contents,
                   metricVars, reportVars, pushVars, linkVars, ghVars, runVars, tempVars>>

\* _git_push_gh_pages, line 60: commit_benchmarks
CommitStage ==
    /\ op = "bench" /\ pc = "commit"
    /\ \E ok \in BOOLEAN :
          /\ stages' = Append(stages, [stage |-> "commit", ok |-> ok])
          /\ local' = IF ok THEN [local EXCEPT ![head] = ArtifactCommit] ELSE local
          /\ artifact' = IF ok THEN ArtifactCommit ELSE artifact
          /\ err' = IF ok THEN "" ELSE "CommitError"
          /\ pc' = benchmark("commit", ok)
    /\ UNCHANGED <<op, branch, branch_alt, head, remote, repo0, git, result, named,
                   tree0, tree, tree1, contents, written,
                   indexVars, metricVars, reportVars, linkVars, ghVars, runVars, tempVars>>

\* _git_push_gh_pages, lines 61-63: create_branch
BranchStage ==
    /\ op = "bench" /\ pc = "branch"
    /\ \E ok \in BOOLEAN :
          /\ stages' = Append(stages, [stage |-> "branch", ok |-> ok])
          /\ local' = IF ok THEN create_branch(local, head, branch) ELSE local
          /\ err' = IF ok THEN "" ELSE "BranchError"
          /\ pc' = benchmark("branch", ok)
    /\ UNCHANGED <<op, branch, branch_alt, head, remote, repo0, git, result, named,
                   artifact, tree0, tree, tree1, contents, written,
                   indexVars, metricVars, reportVars, linkVars, ghVars, runVars, tempVars>>

\* _git_push_gh_pages, lines 64-65: push_branch(branch), return branch
PushStage ==
    /\ op = "bench" /\ pc = "push"
    /\ \E ok \in BOOLEAN, names \in SUBSET {branch} :
          /\ stages' = Append(stages, [stage |-> "push", ok |-> ok])
          /\ git' = Append(git, [cmd |-> "push", ref |-> branch, ok |-> ok])
          /\ remote' = IF ok THEN push_accepted(local, remote, branch) ELSE remote
          /\ named' = IF ok THEN {} ELSE names
          /\ err' = IF ok THEN "" ELSE "PushError"
          /\ result' = IF ok THEN branch ELSE result
          /\ pc' = benchmark("push", push_branch("push", ok, branch_alt) = "done")
    /\ UNCHANGED <<op, branch, branch_alt, head, local, repo0, artifact,
                   tree0, tree, tree1, contents, written,
                   indexVars, metricVars, reportVars, linkVars, ghVars, runVars, tempVars>>

NextBench ==
    \/ PruneStage
    \/ RenameStage
    \/ RenderStage
    \/ CommitStage
    \/ BranchStage
    \/ PushStage

SpecBench == InitBench /\ [][NextBench]_vars

(***************************************************************************)
(* Claims about the stages of benchmark().                                 *)
(***************************************************************************)
Began(stage) == \E i \in 1..Len(stages) : stages[i].stage = stage

Completed(stage) == \E i \in 1..Len(stages) : stages[i].stage = stage /\ stages[i].ok

\* C16: the stages begin in the order prune, rename, render and write,
\* commit, (branch,) push; no report page is parsed before the renaming has
\* completed, so none is named history.html below a selected snapshot then;
\* a stage that raises is the last stage that runs; and unless rendering and
\* writing completed (every page present and numeric) nothing is committed
\* and nothing is pushed.
C16_StagesInOrderAbortOnError ==
    op = "bench" =>
        /\ Len(stages) <= Len(StageOrder)
        /\ \A i \in 1..Len(stages) : stages[i].stage = StageOrder[i]
        /\ \A i \in 1..(Len(stages) - 1) : stages[i].ok
        /\ (err # "") = (Len(stages) >= 1 /\ ~stages[Len(stages)].ok)
        /\ (err # "") = (pc = "raised")
        /\ Began("render") =>
              /\ Completed("rename")
              /\ SelectedNamed(tree, HISTORY) = {}
        /\ Completed("render") =>
              \A d \in Range(dirs) :
                  /\ <<d, FRAGMENT, INDEX>> \in tree
                  /\ contents[d] = GoodPage
        /\ ~Completed("render") =>
              /\ ~written
              /\ ~Began("commit") /\ ~Began("push")
              /\ artifact = 0 /\ git = <<>>
              /\ local = repo0.local /\ remote = repo0.remote
        /\ Began("push") => (written /\ artifact # 0)

C16_Witness ==
    /\ op = "bench" /\ pc = "raised" /\ err = "ValueError"
    /\ Len(stages) = 3
    /\ disk # disk0
    /\ tree # {p \in tree0 : p[1] \in disk}
    /\ \E d \in Range(dirs) : contents[d] = NonNumericPage
    /\ ~written /\ artifact = 0 /\ git = <<>>

(***************************************************************************)
(* The link target of _gen_report_link_markdown.  A path is the list of    *)
(* its components (Path.parts), a component a sequence of characters; the  *)
(* fixed names "bench", "criterion", "reports" and "index.html" stand as   *)
(* one character each, as the marker does.                                 *)
(***************************************************************************)
\* sep.join(parts)
RECURSIVE Join(_, _)
Join(parts, sep) ==
    IF Len(parts) = 0 THEN <<>>
    ELSE IF Len(parts) = 1 THEN parts[1]
    ELSE parts[1] \o <<sep>> \o Join(Tail(parts), sep)

\* _gen_link_md: "/".join(path.parts[1:]) followed by "/index.html"
_gen_link_md(parts) == Join(SliceFrom(parts, 1), "/") \o <<"/", INDEX>>

\* the names a component of bench_dir may have
BenchDirNames == {<<"bench">>, <<"a">>}

\* the snapshot directories of the link scenario
LinkSnaps == {DecStr(7), DecStr(10), dev}

InitLink ==
    /\ IdleTemp
    /\ IdleRun
    /\ IdleGh
    /\ IdleFs
    /\ IdlePush
    /\ op = "link"
    /\ pc = "link"
    /\ err = ""
    /\ bench_dir \in SeqsUpTo(BenchDirNames, MaxParts)
    /\ \E label \in LinkSnaps, name \in ReportDirs :
          frag_path = bench_dir \o <<label, <<"criterion">>, <<"reports">>, name>>
    /\ link = <<>>
    /\ disk0 = {} /\ disk = {} /\ history = 0 /\ dirs = <<>> /\ doc = <<>>
    /\ lines = <<>> /\ vals = <<>> /\ ci = <<>> /\ md = <<>>
    /\ listing = <<>> /\ reports = <<>> /\ extract = "" /\ cips = <<>>
    /\ links = <<>> /\ links_sorted = <<>>

\* _gen_report_link_markdown, lines 134-138
LinkStep ==
    /\ op = "link" /\ pc = "link"
    /\ link' = _gen_link_md(frag_path)
    /\ pc' = "done"
    /\ UNCHANGED <<op, err, bench_dir, frag_path,
                   indexVars, metricVars, reportVars, pushVars, fsVars, ghVars, runVars, tempVars>>

NextLink == LinkStep

SpecLink == InitLink /\ [][NextLink]_vars

(***************************************************************************)
(* Claims about the link target.                                           *)
(***************************************************************************)
\* the components of a relative link
RECURSIVE Split(_, _)
Split(s, sep) ==
    LET at == Find(s, sep, 1)
    IN IF at = 0 THEN <<s>>
       ELSE <<SubSeq(s, 1, at - 1)>> \o Split(SubSeq(s, at + 1, Len(s)), sep)

\* a relative link resolved against the directory that holds the document
Resolve(base, target) == base \o Split(target, "/")

\* C18: whatever the number of components of bench_dir, the link written in
\* bench_dir/index.md, resolved relative to bench_dir, is the page index.html
\* of the report directory the line is about.
C18_LinkResolvesToReport ==
    (op = "link" /\ pc = "done") =>
        Resolve(bench_dir, link) = frag_path \o <<<<INDEX>>>>

(***************************************************************************)
(* Organization.get_repositories (src/github_rest_api/github.py).  The     *)
(* organization has the repositories 1..total; the server answers a        *)
(* request for page k of per_page entries with the k-th slice of that      *)
(* list, or with an error status, on which raise_for_status raises.        *)
(***************************************************************************)
\* "per_page": 100
PerPage == 100

\* the entries the server returns for a page
ServerPage(n, k, per) ==
    List([i \in 1..Max(0, Min(per, n - (k - 1) * per)) |-> (k - 1) * per + i])

\* variant: a full page is taken for the last one
is_last_page_le(data, per) == Len(data) <= per

\* len(data) < params["per_page"]
is_last_page(data, per) == Len(data) < per

InitRepos ==
    /\ IdleTemp
    /\ IdleRun
    /\ IdleFs
    /\ IdlePush
    /\ IdleLink
    /\ op = "repos"
    /\ pc = "request"
    /\ err = ""
    /\ total \in 0..MaxRepos
    /\ page = 1
    /\ repos = <<>>
    /\ requests = <<>>
    /\ returned = ""
    /\ update = "" /\ upstream = "" /\ prs = <<>> /\ pr = <<>> /\ status = 0
    /\ disk0 = {} /\ disk = {} /\ history = 0 /\ dirs = <<>> /\ doc = <<>>
    /\ lines = <<>> /\ vals = <<>> /\ ci = <<>> /\ md = <<>>
    /\ listing = <<>> /\ reports = <<>> /\ extract = "" /\ cips = <<>>
    /\ links = <<>> /\ links_sorted = <<>>

\* get_repositories, lines 306-312: one turn of the loop
RequestPageStep ==
    /\ op = "repos" /\ pc = "request"
    /\ \E ok \in BOOLEAN :
          /\ requests' = Append(requests, [page |-> page, per_page |-> PerPage, ok |-> ok])
          /\ IF ~ok
             THEN /\ err' = "HTTPError"
                  /\ pc' = "raised"
                  /\ UNCHANGED <<repos, page, returned>>
             ELSE \E data \in {ServerPage(total, page, PerPage)} :
                     /\ repos' = repos \o data
                     /\ IF is_last_page(data, PerPage)
                        THEN /\ returned' = repos'
                             /\ pc' = "done"
                             /\ UNCHANGED page
                        ELSE /\ page' = page + 1
                             /\ UNCHANGED <<pc, returned>>
                     /\ UNCHANGED err
    /\ UNCHANGED <<op, total, update, upstream, prs, pr, status,
                   indexVars, metricVars, reportVars, pushVars, fsVars, linkVars, runVars, tempVars>>

NextRepos == RequestPageStep

SpecRepos == InitRepos /\ [][NextRepos]_vars

(***************************************************************************)
(* Claims about get_repositories.                                          *)
(***************************************************************************)
\* the number of entries page k holds
PageSize(k) == Max(0, Min(100, total - 100 * (k - 1)))

\* the repositories 1..n in their order
FirstRepos(n) == List([i \in 1..n |-> i])

\* C19: the requests ask for the pages 1, 2, 3, ... with 100 entries per
\* page; the list built is the concatenation, in page order, of the pages
\* received; a further page is requested exactly when the last one held 100
\* entries; the call ends at the first page with fewer than 100 entries and
\* returns every repository once, in the server's order.
C19_PagesInOrderUntilShortPage ==
    op = "repos" =>
        /\ \A k \in 1..Len(requests) :
              /\ requests[k].page = k
              /\ requests[k].per_page = 100
              /\ k < Len(requests) => (requests[k].ok /\ PageSize(k) = 100)
        /\ LET received == Len(requests) - (IF pc = "raised" THEN 1 ELSE 0)
           IN repos = FirstRepos(Min(total, 100 * received))
        /\ (pc = "request" /\ Len(requests) >= 1) => PageSize(Len(requests)) = 100
        /\ pc = "done" =>
              /\ PageSize(Len(requests)) < 100
              /\ returned = FirstRepos(total)
        /\ pc = "raised" => ~requests[Len(requests)].ok

C19_Witness ==
    /\ op = "repos" /\ pc = "done"
    /\ total = 200
    /\ Len(requests) = 3
    /\ Len(returned) = 200
    /\ returned[101] = 101

(***************************************************************************)
(* Repository.update_branch: create_pull_request, then merge_pull_request. *)
(* A pull request is a record of its number and the refs of its head and   *)
(* base.  The server answers the creation request with 201 and the new     *)
(* pull request, with 422, or with another error status.                   *)
(***************************************************************************)
\* resp.status_code == 422
UNPROCESSABLE == 422

RefNames == {"main", "dev"}

\* the number the server gives a new pull request
NewNumber == MaxPRs + 1

\* the lists of pull requests the server may hold
PullLists ==
    {s \in SeqsUpTo([number : 1..MaxPRs, head : RefNames, base : RefNames], MaxPRs) :
        \A i, j \in 1..Len(s) : s[i].number = s[j].number => i = j}

\* variant: the base of the listed pull request is not compared
existing_pull_request_any_base(list, hd, base) ==
    LET hits == {k \in 1..Len(list) : list[k].head = hd}
    IN IF hits = {} THEN 0 ELSE CHOOSE k \in hits : \A j \in hits : k <= j

\* create_pull_request, lines 162-165: the position of the first listed pull
\* request with that head and base, 0 when there is none
existing_pull_request(list, hd, base) ==
    LET hits == {k \in 1..Len(list) : list[k].head = hd /\ list[k].base = base}
    IN IF hits = {} THEN 0 ELSE CHOOSE k \in hits : \A j \in hits : k <= j

InitUpdate ==
    /\ IdleTemp
    /\ IdleRun
    /\ IdleFs
    /\ IdlePush
    /\ IdleLink
    /\ op = "update"
    /\ pc = "list"
    /\ err = ""
    /\ update \in RefNames
    /\ upstream \in RefNames
    /\ prs \in PullLists
    /\ pr = <<>>
    /\ status = 0
    /\ requests = <<>>
    /\ returned = ""
    /\ total = 0 /\ page = 0 /\ repos = <<>>
    /\ disk0 = {} /\ disk = {} /\ history = 0 /\ dirs = <<>> /\ doc = <<>>
    /\ lines = <<>> /\ vals = <<>> /\ ci = <<>> /\ md = <<>>
    /\ listing = <<>> /\ reports = <<>> /\ extract = "" /\ cips = <<>>
    /\ links = <<>> /\ links_sorted = <<>>

\* create_pull_request, lines 162-165: get_pull_requests and the search
ListPullsStep ==
    /\ op = "update" /\ pc = "list"
    /\ \E ok \in BOOLEAN :
          /\ requests' = Append(requests, [method |-> "GET", number |-> 0, ok |-> ok])
          /\ IF ~ok
             THEN /\ err' = "HTTPError"
                  /\ pc' = "raised"
                  /\ UNCHANGED pr
             ELSE \E k \in {existing_pull_request(prs, upstream, update)} :
                     /\ pr' = IF k = 0 THEN pr ELSE <<prs[k]>>
                     /\ pc' = IF k = 0 THEN "create" ELSE "merge"
                     /\ UNCHANGED err
    /\ UNCHANGED <<op, total, page, repos, update, upstream, prs, status, returned,
                   indexVars, metricVars, reportVars, pushVars, fsVars, linkVars, runVars, tempVars>>

\* create_pull_request, lines 167-175, and update_branch, lines 203-204
CreatePullStep ==
    /\ op = "update" /\ pc = "create"
    /\ \E code \in {201, UNPROCESSABLE, 500} :
          /\ requests' = Append(requests, [method |-> "POST", number |-> 0, ok |-> code = 201])
          /\ status' = code
          /\ IF code = UNPROCESSABLE
             THEN /\ returned' = None
                  /\ pc' = "done"
                  /\ UNCHANGED <<pr, err>>
             ELSE IF code = 201
             THEN /\ pr' = <<[number |-> NewNumber, head |-> upstream, base |-> update]>>
                  /\ pc' = "merge"
                  /\ UNCHANGED <<returned, err>>
             ELSE /\ err' = "HTTPError"
                  /\ pc' = "raised"
                  /\ UNCHANGED <<pr, returned>>
    /\ UNCHANGED <<op, total, page, repos, update, upstream, prs,
                   indexVars, metricVars, reportVars, pushVars, fsVars, linkVars, runVars, tempVars>>

\* update_branch, line 205: merge_pull_request(pr["number"])
MergePullStep ==
    /\ op = "update" /\ pc = "merge"
    /\ \E ok \in BOOLEAN :
          /\ requests' = Append(requests, [method |-> "PUT", number |-> pr[1].number, ok |-> ok])
          /\ returned' = IF ok THEN "merged" ELSE returned
          /\ err' = IF ok THEN "" ELSE "HTTPError"
          /\ pc' = IF ok THEN "done" ELSE "raised"
    /\ UNCHANGED <<op, total, page, repos, update, upstream, prs, pr, status,
                   indexVars, metricVars, reportVars, pushVars, fsVars, linkVars, runVars, tempVars>>

NextUpdate == ListPullsStep \/ CreatePullStep \/ MergePullStep

SpecUpdate == InitUpdate /\ [][NextUpdate]_vars

(***************************************************************************)
(* Claims about update_branch.                                             *)
(***************************************************************************)
Sent(method) == {i \in 1..Len(requests) : requests[i].method = method}

\* the listed pull requests from upstream into update
Listed == {k \in 1..Len(prs) : prs[k].head = upstream /\ prs[k].base = update}

\* C20: a merge request is sent at most once, after the listing, and only
\* for a pull request with head upstream and base update: a listed one, and
\* then no creation request is sent, or the one the creation request
\* returned; when the creation request is answered 422 the call returns None
\* and sends no merge request.
C20_MergesOnlyMatchingPull ==
    op = "update" =>
        /\ Cardinality(Sent("PUT")) <= 1
        /\ Len(requests) >= 1 => requests[1].method = "GET"
        /\ Listed # {} => Sent("POST") = {}
        /\ \A i \in Sent("PUT") :
              \/ /\ Sent("POST") = {}
                 /\ \E k \in Listed : prs[k].number = requests[i].number
              \/ /\ Listed = {}
                 /\ status = 201
                 /\ \E j \in Sent("POST") : j < i
                 /\ pr = <<[number |-> requests[i].number, head |-> upstream, base |-> update]>>
                 /\ \A k \in 1..Len(prs) : prs[k].number # requests[i].number
        /\ status = 422 =>
              /\ pc = "done"
              /\ returned = None
              /\ Sent("PUT") = {}

C20_Witness ==
    /\ op = "update" /\ pc = "done" /\ returned = "merged"
    /\ Len(prs) = 2
    /\ prs[1].head = upstream /\ prs[1].base # update
    /\ prs[2].head = upstream /\ prs[2].base = update
    /\ requests = <<[method |-> "GET", number |-> 0, ok |-> TRUE],
                    [method |-> "PUT", number |-> prs[2].number, ok |-> TRUE]>>

(***************************************************************************)
(* benchmark() as a whole: the branch checked out at each step, the        *)
(* snapshot directories of bench_dir on gh-pages, and the commit pushed.   *)
(* The run starts on the branch of the code under test.  Every git call    *)
(* and command may fail.                                                   *)
(***************************************************************************)
\* the branch of the code under test
MAIN == "main"

\* the name gen_temp_branch() returns: "_branch_" and ten digits
TEMP == "_branch_0123456789"

RunBranches == {MAIN, PRIMARY, TEMP, TIMESTAMPED}

\* the snapshot labels of the scenario: the last three up to MaxLabel
RunLabels == {DecStr(n) : n \in (MaxLabel - 2)..MaxLabel}

\* the order in which benchmark() takes its steps
RunOrder ==
    <<"create_temp", "checkout_pages", "copy_baseline", "checkout_temp", "criterion",
      "checkout_pages", "copy_results", "index", "commit", "create_branch", "push">>

RunPositions ==
    <<"temp", "pages1", "baseline", "back", "criterion",
      "pages2", "copy", "index", "commit", "branch", "push">>

\* the position after `at`: the next one when the step returned, "raised"
\* when it raised
run_next(at, ok) ==
    IF ~ok THEN "raised"
    ELSE IF at = "push" THEN "done"
    ELSE RunPositions[(CHOOSE i \in 1..Len(RunPositions) : RunPositions[i] = at) + 1]

\* variant: the checkout is left out
switch_branch_stay(hd, to) == hd

\* switch_branch(branch, fetch): the branch checked out afterwards
switch_branch(hd, to) == to

\* the calls switch_branch(to, fetch=True) makes: the fetch and, when the
\* fetch returned, the checkout
fetch_checkout(to, fetched, checked) ==
    IF fetched
    THEN <<[cmd |-> "fetch", ref |-> "", ok |-> TRUE],
           [cmd |-> "checkout", ref |-> to, ok |-> checked]>>
    ELSE <<[cmd |-> "fetch", ref |-> "", ok |-> FALSE]>>

\* storage, or pr_number when storage is empty
Storage(st, number) == IF st = <<>> THEN number ELSE st

InitRun ==
    /\ IdleTemp
    /\ IdleFs
    /\ IdleLink
    /\ IdleGh
    /\ op = "run"
    /\ pc = "temp"
    /\ err = ""
    /\ disk0 \in SUBSET (RunLabels \cup {dev})
    /\ disk = disk0
    /\ history = 1
    /\ dirs = <<>> /\ doc = <<>>
    /\ pr_number \in RunLabels
    /\ storage \in {<<>>, dev}
    /\ temp_branch = ""
    /\ criterion_dir = ""
    /\ parent = 0
    /\ events = <<>>
    /\ branch = ""
    /\ branch_alt = ""
    /\ head = MAIN
    /\ \E c, g \in 1..MaxCommits :
          /\ local = [b \in RunBranches |->
                         IF b = MAIN THEN c ELSE IF b = PRIMARY THEN g ELSE 0]
          /\ remote = [b \in RunBranches |-> IF b = PRIMARY THEN g ELSE 0]
    /\ repo0 = [local |-> local, remote |-> remote]
    /\ git = <<>> /\ result = "" /\ named = {} /\ artifact = 0
    /\ lines = <<>> /\ vals = <<>> /\ ci = <<>> /\ md = <<>>
    /\ listing = <<>> /\ reports = <<>> /\ extract = "" /\ cips = <<>>
    /\ links = <<>> /\ links_sorted = <<>>

\* what every step of the run does to pc, err and events
RunStep(at, what, ok, hd) ==
    /\ op = "run" /\ pc = at
    /\ pc' = run_next(at, ok)
    /\ err' = IF ok THEN "" ELSE "Error"
    /\ events' = Append(events, [what |-> what, head |-> hd, ok |-> ok])
    /\ UNCHANGED <<op, disk0, history, pr_number, storage, repo0, branch_alt, named,
                   metricVars, reportVars, fsVars, linkVars, ghVars, tempVars>>

\* _copy_last_dev_bench, lines 19-20: gen_temp_branch, create_branch
TempBranchStep ==
    \E ok \in BOOLEAN :
       /\ RunStep("temp", "create_temp", ok, head)
       /\ temp_branch' = TEMP
       /\ git' = Append(git, [cmd |-> "create", ref |-> TEMP, ok |-> ok])
       /\ local' = IF ok THEN create_branch(local, head, TEMP) ELSE local
       /\ UNCHANGED <<disk, dirs, doc, criterion_dir, parent, branch, head, remote,
                      result, artifact>>

\* _copy_last_dev_bench, line 21: switch_branch("gh-pages", fetch=True)
SwitchPagesStep ==
    \E fetched \in BOOLEAN, checked \in BOOLEAN :
       \E to \in {IF fetched /\ checked THEN switch_branch(head, PRIMARY) ELSE head} :
          /\ RunStep("pages1", "checkout_pages", fetched /\ checked, to)
          /\ head' = to
          /\ git' = git \o fetch_checkout(PRIMARY, fetched, checked)
          /\ UNCHANGED <<disk, dirs, doc, temp_branch, criterion_dir, parent, branch,
                         local, remote, result, artifact>>

\* _copy_last_dev_bench, lines 22-26: copy dev/criterion when it is there
CopyBaselineStep ==
    \E ok \in BOOLEAN :
       /\ RunStep("baseline", "copy_baseline", ok, head)
       /\ criterion_dir' = IF ok /\ dev \in disk THEN "baseline" ELSE criterion_dir
       /\ UNCHANGED <<disk, dirs, doc, temp_branch, parent, branch, head, local,
                      remote, git, result, artifact>>

\* _copy_last_dev_bench, line 27: switch_branch(branch, fetch=False)
SwitchTempStep ==
    \E ok \in BOOLEAN : \E to \in {IF ok THEN switch_branch(head, temp_branch) ELSE head} :
       /\ RunStep("back", "checkout_temp", ok, to)
       /\ head' = to
       /\ git' = Append(git, [cmd |-> "checkout", ref |-> temp_branch, ok |-> ok])
       /\ UNCHANGED <<disk, dirs, doc, temp_branch, criterion_dir, parent, branch,
                      local, remote, result, artifact>>

\* _cargo_criterion, line 37: cargo criterion
CriterionStep ==
    \E ok \in BOOLEAN :
       /\ RunStep("criterion", "criterion", ok, head)
       /\ criterion_dir' = IF ok THEN "results" ELSE criterion_dir
       /\ UNCHANGED <<disk, dirs, doc, temp_branch, parent, branch, head, local,
                      remote, git, result, artifact>>

\* _copy_bench_results, line 46: switch_branch("gh-pages", fetch=True)
SwitchPagesAgainStep ==
    \E fetched \in BOOLEAN, checked \in BOOLEAN :
       \E to \in {IF fetched /\ checked THEN switch_branch(head, PRIMARY) ELSE head} :
          /\ RunStep("pages2", "checkout_pages", fetched /\ checked, to)
          /\ head' = to
          /\ git' = git \o fetch_checkout(PRIMARY, fetched, checked)
          /\ UNCHANGED <<disk, dirs, doc, temp_branch, criterion_dir, parent, branch,
                         local, remote, result, artifact>>

\* _copy_bench_results, lines 47-50: copy target/criterion into the snapshot
CopyResultsStep ==
    \E ok \in BOOLEAN :
       /\ RunStep("copy", "copy_results", ok, head)
       /\ disk' = IF ok THEN disk \cup {Storage(storage, pr_number)} ELSE disk
       /\ UNCHANGED <<dirs, doc, temp_branch, criterion_dir, parent, branch, head,
                      local, remote, git, result, artifact>>

\* benchmark, lines 242-244: gen_index_markdown(history=1); the directories
\* are pruned before the reports are read, and reading a report may raise
GenIndexStep ==
    \E ok \in BOOLEAN : \E r \in {_clean_bench_dirs(disk, history)} :
       /\ RunStep("index", "index", ok, head)
       /\ dirs' = r.dirs
       /\ disk' = r.disk
       /\ doc' = IF ok THEN _gen_markdown(r.dirs) ELSE doc
       /\ UNCHANGED <<temp_branch, criterion_dir, parent, branch, head, local,
                      remote, git, result, artifact>>

\* _git_push_gh_pages, line 60: commit_benchmarks
RunCommitStep ==
    \E ok \in BOOLEAN :
       /\ RunStep("commit", "commit", ok, head)
       /\ git' = Append(git, [cmd |-> "commit", ref |-> head, ok |-> ok])
       /\ parent' = IF ok THEN local[head] ELSE parent
       /\ artifact' = IF ok THEN ArtifactCommit ELSE artifact
       /\ local' = IF ok THEN [local EXCEPT ![head] = ArtifactCommit] ELSE local
       /\ UNCHANGED <<disk, dirs, doc, temp_branch, criterion_dir, branch, head,
                      remote, result>>

\* _git_push_gh_pages, lines 61-63: create_branch
RunBranchStep ==
    \E ok \in BOOLEAN :
       /\ RunStep("branch", "create_branch", ok, head)
       /\ branch' = TIMESTAMPED
       /\ git' = Append(git, [cmd |-> "create", ref |-> TIMESTAMPED, ok |-> ok])
       /\ local' = IF ok THEN create_branch(local, head, TIMESTAMPED) ELSE local
       /\ UNCHANGED <<disk, dirs, doc, temp_branch, criterion_dir, parent, head,
                      remote, result, artifact>>

\* _git_push_gh_pages, lines 64-65: push_branch(branch), return branch
RunPushStep ==
    \E ok \in BOOLEAN :
       /\ RunStep("push", "push", push_branch("push", ok, branch_alt) = "done", head)
       /\ git' = Append(git, [cmd |-> "push", ref |-> branch, ok |-> ok])
       /\ remote' = IF ok THEN push_accepted(local, remote, branch) ELSE remote
       /\ result' = IF ok THEN branch ELSE result
       /\ UNCHANGED <<disk, dirs, doc, temp_branch, criterion_dir, parent, branch,
                      head, local, artifact>>

NextRun ==
    \/ TempBranchStep
    \/ SwitchPagesStep
    \/ CopyBaselineStep
    \/ SwitchTempStep
    \/ CriterionStep
    \/ SwitchPagesAgainStep
    \/ CopyResultsStep
    \/ GenIndexStep
    \/ RunCommitStep
    \/ RunBranchStep
    \/ RunPushStep

SpecRun == InitRun /\ [][NextRun]_vars

(***************************************************************************)
(* Claims about benchmark() as a whole.                                    *)
(***************************************************************************)
Happened(what) == \E i \in 1..Len(events) : events[i].what = what /\ events[i].ok

\* the snapshot directory this run writes
Snapshot == IF storage = <<>> THEN pr_number ELSE storage

\* C21: once gen_index_markdown has run inside benchmark(), the snapshot
\* directory written by this run is still on disk and has a section in
\* index.md, whatever snapshot directories were there before.
C21_CurrentSnapshotSurvives ==
    (op = "run" /\ Happened("index")) =>
        /\ Snapshot \in disk
        /\ Snapshot \in Range(doc)

\* the steps of the run that read or write the working tree of gh-pages
OnPages == {"copy_baseline", "copy_results", "index", "commit", "create_branch", "push"}

\* C24: the steps of benchmark() happen in one order, each only after the
\* one before returned; the temporary branch is created at the commit of
\* the code under test and stays there; every checkout of gh-pages comes
\* right after a fetch and the checkout of the temporary branch has none;
\* cargo criterion runs with the temporary branch checked out, never
\* gh-pages; the baseline is copied, the results are copied, the index is
\* generated and the commit is made with gh-pages checked out; the commit
\* has the commit of gh-pages as parent and is the one pushed under the
\* timestamped name, gh-pages on the remote being left as it was.
C24_CheckoutSequence ==
    op = "run" =>
        /\ Len(events) <= Len(RunOrder)
        /\ \A i \in 1..Len(events) : events[i].what = RunOrder[i]
        /\ \A i \in 1..(Len(events) - 1) : events[i].ok
        /\ Happened("create_temp") =>
              /\ temp_branch \notin {"", PRIMARY, MAIN}
              /\ local[temp_branch] = repo0.local[MAIN]
        /\ \A i \in 1..Len(events) :
              /\ events[i].what = "criterion" =>
                    /\ events[i].head = temp_branch
                    /\ events[i].head # PRIMARY
              /\ events[i].what \in OnPages => events[i].head = PRIMARY
              /\ (events[i].what = "checkout_pages" /\ events[i].ok) =>
                    events[i].head = PRIMARY
        /\ \A j \in 1..Len(git) :
              git[j].cmd = "checkout" =>
                  IF git[j].ref = PRIMARY
                  THEN j > 1 /\ git[j - 1].cmd = "fetch" /\ git[j - 1].ok
                  ELSE /\ git[j].ref = temp_branch
                       /\ git[j - 1].cmd # "fetch"
        /\ criterion_dir = "results" <=> Happened("criterion")
        /\ criterion_dir = "baseline" =>
              (Happened("copy_baseline") /\ dev \in disk0)
        /\ artifact # 0 =>
              /\ parent = repo0.local[PRIMARY]
              /\ local[PRIMARY] = artifact
              /\ local[temp_branch] = repo0.local[MAIN]
        /\ pc = "done" =>
              /\ result = TIMESTAMPED
              /\ remote[TIMESTAMPED] = artifact
              /\ remote[PRIMARY] = repo0.remote[PRIMARY]

\* a complete run with a baseline on gh-pages, from code that is at another
\* commit than gh-pages
C24_Witness ==
    /\ op = "run" /\ pc = "done"
    /\ Len(events) = Len(RunOrder)
    /\ dev \in disk0
    /\ criterion_dir = "results"
    /\ repo0.local[MAIN] # repo0.local[PRIMARY]
    /\ head = PRIMARY
    /\ remote[TIMESTAMPED] = artifact /\ artifact # 0

(***************************************************************************)
(* gen_index_markdown on a bench_dir that also holds directories whose     *)
(* names are not snapshot labels.                                          *)
(***************************************************************************)
\* the directories of bench_dir: snapshot labels, dev, and names that are
\* not positive integers: one that only starts with a digit 1-9, one that
\* ends with one, one with a leading zero
GlobNames ==
    {DecStr(1), DecStr(2), DecStr(MaxLabel), dev}
        \cup {<<"1", "x">>, <<"x", "1">>, <<"0", "1">>}

InitGlob ==
    /\ IdleTemp
    /\ IdleRun
    /\ IdleGh
    /\ IdleLink
    /\ IdleFs
    /\ IdlePush
    /\ op = "index"
    /\ pc = "clean"
    /\ err = ""
    /\ disk0 \in SUBSET GlobNames
    /\ disk = disk0
    /\ history \in (0 - NegHistory)..MaxHistory
    /\ dirs = <<>>
    /\ doc = <<>>
    /\ lines = <<>> /\ vals = <<>> /\ ci = <<>> /\ md = <<>>
    /\ listing = <<>> /\ reports = <<>> /\ extract = "" /\ cips = <<>>
    /\ links = <<>> /\ links_sorted = <<>>

SpecGlob == InitGlob /\ [][NextIndex]_vars

\* C22: _clean_bench_dirs selects and deletes only directories whose names
\* are positive integers: a directory whose name is not a positive integer
\* is still on disk afterwards and is not returned as a snapshot (dev, the
\* baseline, is returned as the baseline).
C22_OnlyIntegerNamesPruned ==
    Cleaned =>
        \A n \in disk0 :
            ~IsLabel(n) => /\ n \in disk
                           /\ n \in Range(dirs) => n = dev

(***************************************************************************)
(* gen_temp_branch(prefix, chars, nrand).  chars is a list of integers,    *)
(* as with the default range(10); str() writes each in decimal.            *)
(***************************************************************************)
\* the longest chars list
MaxChars == 3

\* the elements chars is made of: two of one digit and one of two digits
TempItems == {0, 1, MaxLabel}

\* "_branch_", standing as one character
BRANCH_PREFIX == "_branch_"

\* variant: positions drawn with replacement, as random.choices does
sample_with_replacement(population, k) ==
    {List([i \in 1..k |-> population[f[i]]]) : f \in [1..k -> 1..Len(population)]}

\* random.sample(population, k) for 0 <= k <= len(population): the lists it
\* can return, k elements at distinct positions of the population
sample(population, k) ==
    {List([i \in 1..k |-> population[f[i]]]) :
        f \in {g \in [1..k -> 1..Len(population)] :
                  \A i, j \in 1..k : i # j => g[i] # g[j]}}

\* random.sample raises ValueError unless 0 <= k <= len(population)
sample_raises(population, k) == k < 0 \/ k > Len(population)

\* "".join(str(char) for char in items)
RECURSIVE JoinStr(_)
JoinStr(items) ==
    IF Len(items) = 0 THEN <<>>
    ELSE DecStr(items[1]) \o JoinStr(Tail(items))

InitTemp ==
    /\ IdleRun
    /\ IdleGh
    /\ IdleLink
    /\ IdleFs
    /\ IdlePush
    /\ op = "temp"
    /\ pc = "sample"
    /\ err = ""
    /\ temp_prefix \in {<<>>, <<BRANCH_PREFIX>>}
    /\ temp_chars \in SeqsUpTo(TempItems, MaxChars)
    /\ temp_nrand \in (0 - 1)..(MaxChars + 1)
    /\ temp_sample = <<>>
    /\ temp_name = <<>>
    /\ disk0 = {} /\ disk = {} /\ history = 0 /\ dirs = <<>> /\ doc = <<>>
    /\ lines = <<>> /\ vals = <<>> /\ ci = <<>> /\ md = <<>>
    /\ listing = <<>> /\ reports = <<>> /\ extract = "" /\ cips = <<>>
    /\ links = <<>> /\ links_sorted = <<>>

\* gen_temp_branch, lines 41-42, when random.sample returns
SampleStep ==
    /\ op = "temp" /\ pc = "sample"
    /\ ~sample_raises(temp_chars, temp_nrand)
    /\ \E picked \in sample(temp_chars, temp_nrand) :
          /\ temp_sample' = picked
          /\ temp_name' = temp_prefix \o JoinStr(picked)
    /\ pc' = "done"
    /\ UNCHANGED <<op, err, temp_prefix, temp_chars, temp_nrand, indexVars, metricVars,
                   reportVars, pushVars, fsVars, linkVars, ghVars, runVars>>

\* gen_temp_branch, line 41, when random.sample raises
SampleRaisesStep ==
    /\ op = "temp" /\ pc = "sample"
    /\ sample_raises(temp_chars, temp_nrand)
    /\ pc' = "raised"
    /\ err' = "ValueError"
    /\ UNCHANGED <<op, temp_prefix, temp_chars, temp_nrand, temp_sample, temp_name,
                   indexVars, metricVars, reportVars, pushVars, fsVars, linkVars,
                   ghVars, runVars>>

NextTemp == SampleStep \/ SampleRaisesStep

SpecTemp == InitTemp /\ [][NextTemp]_vars

\* the number of positions of list at which item stands
Count(list, item) == Cardinality({i \in 1..Len(list) : list[i] = item})

\* C23: gen_temp_branch returns prefix followed by exactly nrand elements
\* of chars, written in decimal, no position of chars used more than once;
\* when chars has no repeated element and nrand = len(chars) the suffix is
\* a permutation of chars; when nrand exceeds len(chars) it raises and
\* returns no name.
C23_SamplesWithoutReplacement ==
    op = "temp" =>
        /\ pc = "done" =>
              /\ Len(temp_sample) = temp_nrand
              /\ temp_name = temp_prefix \o JoinStr(temp_sample)
              /\ \A item \in TempItems :
                    Count(temp_sample, item) <= Count(temp_chars, item)
              /\ temp_nrand = Len(temp_chars) =>
                    \A item \in TempItems :
                        Count(temp_sample, item) = Count(temp_chars, item)
        /\ temp_nrand > Len(temp_chars) =>
              /\ pc # "done"
              /\ temp_name = <<>>
              /\ pc = "raised" => err = "ValueError"

\* a name made of all of three different elements, in another order than
\* they have in chars, after the prefix
C23_Witness ==
    /\ op = "temp" /\ pc = "done"
    /\ temp_nrand = MaxChars
    /\ \A item \in TempItems : Count(temp_chars, item) = 1
    /\ temp_sample # temp_chars
    /\ temp_prefix = <<BRANCH_PREFIX>>

(***************************************************************************)
(* The scenarios together.                                                 *)
(***************************************************************************)
Init == InitIndex \/ InitMetric \/ InitReport \/ InitPush \/ InitRename \/ InitBench \/ InitLink \/ InitRepos \/ InitUpdate \/ InitRun \/ InitGlob \/ InitTemp

Next == NextIndex \/ NextMetric \/ NextReport \/ NextPush \/ NextRename \/ NextBench \/ NextLink \/ NextRepos \/ NextUpdate \/ NextRun \/ NextTemp

Spec == Init /\ [][Next]_vars

====
